---- MODULE Spec2Model ----
(***************************************************************************)
(* OpenTune music import pipeline: the orchestrator (main), the bulk       *)
(* existence check, the asset uploader with retry and bounded windows,     *)
(* the batch writer, and the rotating provider adapters.                   *)
(***************************************************************************)
EXTENDS Integers, Sequences, FiniteSets, TLC

(* ---------------- program constants ---------------- *)
BATCH_SIZE == 500
CHUNK == 100
CONCURRENCY == 5
PAGE_SIZE == 100
MAX_RETRIES == 2
RETRY_DELAY_MS == 2000

(* ---------------- bounds of the model ---------------- *)
\* length of the long candidate page (spans two existence-check chunks)
BigLen == 101
\* number of consecutive runs of the pipeline that are explored
MaxRuns == 2
\* longest track list handed directly to uploadAllTrackAssets
MaxUploadLen == 6
\* consecutive calls of one adapter that are explored
MaxCalls == 5
\* failures (HTTP error, thrown request, failed progress read or write) in
\* one history of an adapter
MaxFaults == 1
\* full pages a provider holds for each of its partitions, at most
MaxPages == 1
\* records of the short page that ends a partition, when it has one
MaxShort == 1
\* longest track list handed directly to batchWriteTracks
MaxWriteLen == 1001
MaxScan == 102
MaxCap == 101
MaxThrows == 1
MaxOverlap == 1

(* ---------------- helpers ---------------- *)
Min(a, b) == IF a < b THEN a ELSE b

Range(s) == {s[k] : k \in 1..Len(s)}

\* Array.prototype.slice(from, to) on a 0-based array, as a 1-based sequence
Slice(s, from, to) == SubSeq(s, from + 1, Min(to, Len(s)))

MaxOf(S) == CHOOSE x \in S : \A y \in S : y <= x

(* ---------------- records ---------------- *)
\* a catalog id "<prefix>-<native>"; a missing id has an empty prefix
MkId(prefix, native) == [prefix |-> prefix, native |-> native]
NoId == MkId("", 0)

\* variant: the id is the native id alone
BuildIdBare(prefix, nativeText) == nativeText

\* ccmixter.ts line 108, musicbrainz.ts line 106, bandcamp.ts line 89, discogs
\* line 293: the id string `${prefix}-${native}`
BuildId(prefix, nativeText) == prefix \o "-" \o nativeText

\* the string a catalog id is
IdText(id) == BuildId(id.prefix, ToString(id.native))

\* a reference: empty, an external URL, or an object of the owned store
EmptyRef == [scheme |-> "", dir |-> "", owner |-> NoId, kind |-> ""]
HttpRef(id, kind) == [scheme |-> "http", dir |-> "", owner |-> id, kind |-> kind]

\* an object of the owned store, as an earlier relocation left it in a record
StoredRef(id, kind) == [scheme |-> "gs", dir |-> id.prefix, owner |-> id, kind |-> kind]

\* variant: every non-empty reference is taken for an external URL
IsHttpOrStored(ref) == ref.scheme # ""

\* String.prototype.startsWith('http') on a reference
IsHttp(ref) == ref.scheme = "http"

\* The record an adapter builds for native id n.  What a provider holds for
\* a native id does not change between runs; native ids below 10 and the
\* last digit of native ids from 1000 on select the shape of the record:
\*   1      audio only (external URL)
\*   2      no title
\*   3      metadata only, duration 0
\*   4      negative duration
\*   5      audio and artwork (external URLs)
\*   6      artwork only (external URL)
\*   7      audio already relocated (gs://), no artwork
\*   8      audio and artwork already relocated (gs://)
\*   9      audio reference "gs://<bucket>" with no object path, no artwork
\*   other  metadata only, no references
Kind(n) == IF n < 10 THEN n ELSE IF n < 1000 THEN 0 ELSE n % 10

Track(prefix, n) ==
  LET id == MkId(prefix, n) IN
  [ id |-> id,
    title |-> IF Kind(n) = 2 THEN "" ELSE "title",
    artist |-> "artist",
    duration |-> IF Kind(n) = 4 THEN -1 ELSE IF Kind(n) = 3 THEN 0 ELSE 180,
    audioUrl |-> IF Kind(n) \in {1, 5} THEN HttpRef(id, "audio")
                 ELSE IF Kind(n) \in {7, 8} THEN StoredRef(id, "mp3")
                 ELSE IF Kind(n) = 9 THEN StoredRef(id, "")
                 ELSE EmptyRef,
    artwork |-> IF Kind(n) \in {5, 6} THEN HttpRef(id, "art")
                ELSE IF Kind(n) = 8 THEN StoredRef(id, "cover.jpg")
                ELSE EmptyRef ]

TracksOf(prefix, natives) ==
  [k \in 1..Len(natives) |-> Track(prefix, natives[k])]

\* utils.validateTrack: id, title and artist present, duration not negative
validateTrack(t) ==
  /\ t.id # NoId
  /\ t.title # ""
  /\ t.artist # ""
  /\ t.duration >= 0

(* ---------------- the run's inputs ---------------- *)
\* the adapters main launches, in the order of the Promise.allSettled array
Sources == <<"jamendo", "ccmixter">>
Adapters == 1..Len(Sources)

BigPage == [k \in 1..BigLen |-> 10 + k]

\* what an adapter call may resolve with: the native ids of the records it
\* returns and its error strings
Outcomes(a) ==
  IF a = 1
    THEN {<<<<>>, <<"HTTP 500 on tag rock">>>>, <<<<1, 2, 3>>, <<>>>>,
          <<<<4, 3>>, <<>>>>, <<BigPage, <<>>>>}
    ELSE {<<<<>>, <<>>>>, <<<<6>>, <<"HTTP 429 on type remix">>>>}

Pending == [status |-> "pending", sourceName |-> "", tracks |-> <<>>, errors |-> <<>>]
Rejected == [status |-> "rejected", sourceName |-> "", tracks |-> <<>>, errors |-> <<>>]
Fulfilled(a, natives, errs) ==
  [status |-> "fulfilled", sourceName |-> Sources[a],
   tracks |-> TracksOf(Sources[a], natives), errors |-> errs]

EmptyCatalog == [id \in {} |-> NoId]

(* ---------------- state ---------------- *)
VARIABLES
  pc,           \* stage of main the run is at
  run,          \* number of the current run
  dryRun,       \* process.env.DRY_RUN === '1'
  credsOk,      \* usable service-account credentials are configured
  db,           \* services?.db is not null
  bucket,       \* services?.bucket is not null
  catalog,      \* Firestore collection 'tracks': id -> document
  clock,        \* server timestamp source
  bucketFiles,  \* storage paths saved in the bucket
  settled,      \* Promise.allSettled: adapter -> settlement
  candIds,      \* ids of all records the adapters returned in this run
  allTracks,
  allStats,
  existingIds,  \* batchCheckExisting: existing
  dedupI,       \* batchCheckExisting: i
  newTracks,
  upCall,       \* uploadAllTrackAssets: idle / called / running / returned
  upTracks,     \* uploadAllTrackAssets: tracks
  upI,          \* uploadAllTrackAssets: i
  proc,         \* processTrack promises of the current window
  results,      \* uploadAllTrackAssets: results
  upResult,     \* value uploadAllTrackAssets returned
  exhausted,    \* <<id, phase>> of the references whose every attempt failed
  completed,    \* indices of upTracks whose processTrack had returned when joined
  tracksToWrite,
  writeI,       \* batchWriteTracks: i
  summary,      \* the per-source lines of the Import Summary, once logged
  exitCode,     \* process exit status, -1 while running
  prevIds,      \* candIds of the previous run
  prevLive,     \* the previous run was live and committed every chunk
  prov,         \* adapter: the provider whose adapter is called
  pagesAvail,   \* provider: full pages it holds per partition
  shortTail,    \* provider: a short page follows the full pages
  stateDoc,     \* Firestore document import-state/<provider>, or NoDoc
  apc,          \* adapter: position in the call
  hasDb,        \* adapter: the db argument is set
  hasToken,     \* adapter: process.env.DISCOGS_TOKEN is set
  st,           \* adapter: state
  loopI,        \* adapter: loop variable over the partitions of the call
  pg,           \* adapter (Bandcamp): page
  aTracks,      \* adapter: ids of tracks
  aErrors,      \* adapter: errors.length
  reqLog,       \* page requests issued in this call
  loadStatus,   \* outcome of this call's progress read: none / ok / failed
  newState,     \* adapter: the document handed to the progress write, or NoDoc
  saveStatus,   \* outcome of this call's progress write: none / ok / failed
  faults,       \* failures so far
  runsDone,     \* calls that went through the partition loop
  cleanRuns,    \* every such call had db and read and wrote its progress
  queried,      \* partitions a page request was issued for, over all calls
  docOps,       \* the db.doc(...).get() and .set() calls of the current adapter call
  migPc,        \* migration utility: position in its main
  limitCount,   \* migration utility: limitCount
  stats,        \* migration utility: stats
  hasMore,      \* migration utility: hasMore
  lastDoc,      \* migration utility: id of lastDoc, NoId for null
  docs,         \* migration utility: ids of snapshot.docs
  chunkI,       \* migration utility: i of the loop over docs
  inflight,     \* migration utility: the callbacks of the current chunk
  fileTokens,   \* bucket: storage path -> download token, where one is set
  throws        \* migration utility: calls that have thrown so far

runVars == <<pc, run, dryRun, credsOk, db, bucket, summary, exitCode, prevIds, prevLive>>
storeVars == <<catalog, clock, bucketFiles>>
fetchVars == <<settled, candIds, allTracks, allStats>>
dedupVars == <<existingIds, dedupI, newTracks>>
upVars == <<upCall, upTracks, upI, proc, results, upResult, exhausted, completed>>
writeVars == <<tracksToWrite, writeI>>
pipelineVars == <<runVars, storeVars, fetchVars, dedupVars, upVars, writeVars>>
adapterVars == <<prov, pagesAvail, shortTail, stateDoc, apc, hasDb, hasToken, st, loopI, pg,
                 aTracks, aErrors, reqLog, loadStatus, newState, saveStatus, faults, runsDone, cleanRuns, queried,
                 docOps>>
migrateVars == <<migPc, limitCount, stats, hasMore, lastDoc, docs, chunkI, inflight,
                 fileTokens, throws>>
vars == <<pipelineVars, adapterVars, migrateVars>>

\* the values of the locals of main at the top of a run
NoSettlement == [a \in Adapters |-> Pending]

(* ---------------- provider adapters: tables ---------------- *)
Providers == {"ccmixter", "musicbrainz", "discogs", "bandcamp"}

CONTENT_TYPES == <<"opsample", "remix", "cover">>
TAG_FILTERS == <<"rock", "metal", "electronic", "hip-hop", "experimental",
                 "indie", "pop", "jazz", "folk", "ambient">>
SEARCHES == <<"genre:rock year:[2010 TO 2026] type:release",
              "genre:electronic year:[2010 TO 2026] type:release",
              "genre:hip-hop year:[2010 TO 2026] type:release",
              "genre:pop year:[2010 TO 2026] type:release",
              "genre:metal year:[2010 TO 2026] type:release">>
GENRES == <<"rock", "metal", "electronic", "hip-hop", "experimental",
            "indie", "pop", "jazz", "folk", "ambient">>
PAGES_PER_GENRE == 3

\* the partition table of a provider
PartitionsOf(p) ==
  CASE p = "ccmixter" -> CONTENT_TYPES
    [] p = "musicbrainz" -> TAG_FILTERS
    [] p = "discogs" -> SEARCHES
    [] p = "bandcamp" -> GENRES

\* typesToFetch, tagsToFetch, searchesToFetch, genresToFetch
PerRun(p) == IF p = "bandcamp" THEN 3 ELSE 2

\* PAGE_SIZE of each adapter
PageSize(p) == IF p = "musicbrainz" THEN 100 ELSE 50

NoOffsets == [name \in {} |-> 0]
NoDoc == [exists |-> FALSE, idx |-> 0, offsets |-> NoOffsets, lastRun |-> 0]

\* the state an adapter starts from
DefaultState == [idx |-> 0, offsets |-> NoOffsets, lastRun |-> 0]

\* the adapter is not in a call
AdapterIdle ==
  /\ stateDoc = NoDoc
  /\ apc = "idle"
  /\ hasDb = FALSE
  /\ hasToken = FALSE
  /\ st = DefaultState
  /\ loopI = 0
  /\ pg = 0
  /\ aTracks = <<>>
  /\ aErrors = 0
  /\ reqLog = <<>>
  /\ loadStatus = "none"
  /\ newState = NoDoc
  /\ saveStatus = "none"
  /\ faults = 0
  /\ runsDone = 0
  /\ cleanRuns = TRUE
  /\ queried = {}
  /\ docOps = <<>>

NoStats == [total |-> 0, migrated |-> 0, skipped |-> 0, failed |-> 0, failedIds |-> <<>>]
NoTokens == [path \in {} |-> 0]

\* the migration utility has not been started
MigrateIdle ==
  /\ migPc = "idle"
  /\ limitCount = 0
  /\ stats = NoStats
  /\ hasMore = FALSE
  /\ lastDoc = NoId
  /\ docs = <<>>
  /\ chunkI = 0
  /\ inflight = <<>>
  /\ fileTokens = NoTokens
  /\ throws = 0

\* main before its first step, apart from the environment it runs in
PipelineStart ==
  /\ pc = "Init"
  /\ run = 1
  /\ db = FALSE
  /\ bucket = FALSE
  /\ catalog = EmptyCatalog
  /\ clock = 0
  /\ bucketFiles = {}
  /\ prevIds = {}
  /\ prevLive = FALSE
  /\ settled = NoSettlement
  /\ candIds = {}
  /\ allTracks = <<>>
  /\ allStats = <<>>
  /\ existingIds = {}
  /\ dedupI = 0
  /\ newTracks = <<>>
  /\ upCall = "idle"
  /\ upTracks = <<>>
  /\ upI = 0
  /\ proc = <<>>
  /\ results = <<>>
  /\ upResult = <<>>
  /\ exhausted = {}
  /\ completed = {}
  /\ tracksToWrite = <<>>
  /\ writeI = 0
  /\ summary = <<>>
  /\ exitCode = -1

Init ==
  /\ dryRun \in BOOLEAN
  /\ credsOk \in BOOLEAN
  /\ PipelineStart
  /\ prov = "ccmixter"
  /\ pagesAvail = 0
  /\ shortTail = 0
  /\ AdapterIdle
  /\ MigrateIdle

(* ---------------- main: Init and FetchAll ---------------- *)
\* variant: initialisation succeeds whatever the credentials
initFirebaseAdminLenient(creds) == TRUE

\* firebaseAdmin.initFirebaseAdmin outside dry run: throws without credentials
initFirebaseAdmin(creds) == creds

\* main lines 14-24: services, then the adapters are launched
InitServices ==
  /\ pc = "Init"
  /\ IF dryRun
       THEN /\ db' = FALSE /\ bucket' = FALSE /\ pc' = "FetchAll"
            /\ exitCode' = exitCode
       ELSE IF initFirebaseAdmin(credsOk)
         THEN /\ db' = TRUE /\ bucket' = TRUE /\ pc' = "FetchAll"
              /\ exitCode' = exitCode
         ELSE /\ db' = FALSE /\ bucket' = FALSE /\ pc' = "Fatal"
              /\ exitCode' = 1
  /\ UNCHANGED <<run, dryRun, credsOk, summary, prevIds, prevLive>>
  /\ UNCHANGED <<storeVars, fetchVars, dedupVars, upVars, writeVars>>
  /\ UNCHANGED <<adapterVars, migrateVars>>

\* an adapter's promise fulfils with a SourceResult
AdapterFulfil(a) ==
  /\ pc = "FetchAll"
  /\ settled[a].status = "pending"
  /\ \E o \in Outcomes(a) :
       settled' = [settled EXCEPT ![a] = Fulfilled(a, o[1], o[2])]
  /\ UNCHANGED <<candIds, allTracks, allStats>>
  /\ UNCHANGED <<runVars, storeVars, dedupVars, upVars, writeVars>>
  /\ UNCHANGED <<adapterVars, migrateVars>>

\* an adapter's promise rejects
AdapterReject(a) ==
  /\ pc = "FetchAll"
  /\ settled[a].status = "pending"
  /\ settled' = [settled EXCEPT ![a] = Rejected]
  /\ UNCHANGED <<candIds, allTracks, allStats>>
  /\ UNCHANGED <<runVars, storeVars, dedupVars, upVars, writeVars>>
  /\ UNCHANGED <<adapterVars, migrateVars>>

\* variant: main goes on as soon as one adapter has settled
AnySettled(s) == \E a \in Adapters : s[a].status # "pending"

\* Promise.allSettled resolves once no adapter is pending
AllSettled(s) == \A a \in Adapters : s[a].status # "pending"

FetchAllSettled ==
  /\ pc = "FetchAll"
  /\ AllSettled(settled)
  /\ pc' = "Validate"
  /\ UNCHANGED <<run, dryRun, credsOk, db, bucket, summary, exitCode, prevIds, prevLive>>
  /\ UNCHANGED <<storeVars, fetchVars, dedupVars, upVars, writeVars>>
  /\ UNCHANGED <<adapterVars, migrateVars>>

(* ---------------- main: Validate ---------------- *)
\* variant: no validation filter
ValidOfAll(sr) == sr.tracks

\* main lines 34-35: the valid tracks of one fulfilled result
ValidOf(sr) == SelectSeq(sr.tracks, validateTrack)

\* main lines 41-47 and 50-56: the stats entry pushed for one result
StatOf(sr) ==
  IF sr.status = "fulfilled"
    THEN [source |-> sr.sourceName, fetched |-> Len(sr.tracks),
          newTracks |-> 0, skippedDuplicates |-> 0, errors |-> Len(sr.errors)]
    ELSE [source |-> "unknown", fetched |-> 0,
          newTracks |-> 0, skippedDuplicates |-> 0, errors |-> 1]

RECURSIVE CollectTracks(_, _)
CollectTracks(s, a) ==
  IF a > Len(Sources) THEN <<>>
  ELSE (IF s[a].status = "fulfilled" THEN ValidOf(s[a]) ELSE <<>>)
         \o CollectTracks(s, a + 1)

\* main lines 26-58: the loop over the settled results
Validate ==
  /\ pc = "Validate"
  /\ allTracks' = CollectTracks(settled, 1)
  /\ allStats' = [a \in Adapters |-> StatOf(settled[a])]
  /\ candIds' = UNION {{t.id : t \in Range(settled[a].tracks)} : a \in Adapters}
  /\ pc' = "Dedup"
  /\ UNCHANGED settled
  /\ UNCHANGED <<run, dryRun, credsOk, db, bucket, summary, exitCode, prevIds, prevLive>>
  /\ UNCHANGED <<storeVars, dedupVars, upVars, writeVars>>
  /\ UNCHANGED <<adapterVars, migrateVars>>

(* ---------------- main: Dedup (batchCheckExisting) ---------------- *)
IdsOf(tracks) == [k \in 1..Len(tracks) |-> tracks[k].id]

\* variant: the slice is one id short
ChunkOfShort(ids, i) == Slice(ids, i, i + CHUNK - 1)

\* batchCheckExisting line 124: ids.slice(i, i + CHUNK)
ChunkOf(ids, i) == Slice(ids, i, i + CHUNK)

\* batchCheckExisting lines 125-132: the ids of the chunk whose snapshot exists
ExistingIn(chunk, cat) == {id \in Range(chunk) : id \in DOMAIN cat}

\* one iteration of the loop of batchCheckExisting: db.getAll resolves
DedupChunk ==
  /\ pc = "Dedup"
  /\ db
  /\ dedupI < Len(allTracks)
  /\ existingIds' = existingIds \cup ExistingIn(ChunkOf(IdsOf(allTracks), dedupI), catalog)
  /\ dedupI' = dedupI + CHUNK
  /\ UNCHANGED newTracks
  /\ UNCHANGED <<runVars, storeVars, fetchVars, upVars, writeVars>>
  /\ UNCHANGED <<adapterVars, migrateVars>>

\* db.getAll rejects: the rejection leaves batchCheckExisting and main
DedupFail ==
  /\ pc = "Dedup"
  /\ db
  /\ dedupI < Len(allTracks)
  /\ pc' = "Fatal"
  /\ exitCode' = 1
  /\ UNCHANGED <<run, dryRun, credsOk, db, bucket, summary, prevIds, prevLive>>
  /\ UNCHANGED <<storeVars, fetchVars, dedupVars, upVars, writeVars>>
  /\ UNCHANGED <<adapterVars, migrateVars>>

\* main lines 74-78: sourcePrefixMap[stat.source] || stat.source
SourcePrefix(source) == IF source = "jamendo" THEN "jamendo-" ELSE source

\* t.id.startsWith(prefix) for an id "<id.prefix>-<id.native>"
IdStartsWith(id, p) == p = id.prefix \/ p = id.prefix \o "-"

\* variant: nothing is filtered out
NewOfAll(tracks, existing) == tracks

\* main line 67: allTracks.filter(t => !existingIds.has(t.id))
NewOf(tracks, existing) == SelectSeq(tracks, LAMBDA t : t.id \notin existing)

\* main lines 77-83: per-source counts
UpdateStat(stat, tracks, new) ==
  LET prefix == SourcePrefix(stat.source)
      sourceTracks == SelectSeq(tracks, LAMBDA t : IdStartsWith(t.id, prefix))
      sourceNew == SelectSeq(new, LAMBDA t : IdStartsWith(t.id, prefix))
  IN [stat EXCEPT !.newTracks = Len(sourceNew),
                  !.skippedDuplicates = Len(sourceTracks) - Len(sourceNew)]

\* variant: without a database handle the ids of the catalog are known all the same
ExistingOfCatalog(handle, found) == IF handle THEN found ELSE DOMAIN catalog

\* variant: the existence check finds nothing
ExistingOfNone(handle, found) == {}

\* main lines 63-65: db ? await batchCheckExisting(...) : new Set<string>()
ExistingOf(handle, found) == IF handle THEN found ELSE {}

\* main lines 63-83: the existence check has returned (or db is null)
DedupFinish ==
  /\ pc = "Dedup"
  /\ ~db \/ dedupI >= Len(allTracks)
  /\ LET existing == ExistingOf(db, existingIds)
         new == NewOf(allTracks, existing)
     IN /\ existingIds' = existing
        /\ newTracks' = new
        /\ allStats' = [a \in Adapters |-> UpdateStat(allStats[a], allTracks, new)]
  /\ pc' = "MigrateAssets"
  /\ UNCHANGED <<dedupI, settled, candIds, allTracks>>
  /\ UNCHANGED <<run, dryRun, credsOk, db, bucket, summary, exitCode, prevIds, prevLive>>
  /\ UNCHANGED <<storeVars, upVars, writeVars>>
  /\ UNCHANGED <<adapterVars, migrateVars>>

(* ---------------- storageUploader ---------------- *)
\* getSource: the prefix before the first '-', or 'unknown'
getSource(id) == IF id.prefix # "" THEN id.prefix ELSE "unknown"

\* processTrack lines 89 and 96: imports/<source>/<id>.mp3 or <id>_cover.jpg
StoragePath(id, phase) ==
  [dir |-> getSource(id), owner |-> id,
   kind |-> IF phase = "audio" THEN "mp3" ELSE "cover.jpg"]

\* uploadToStorage line 47: gs://<bucket>/<storagePath>
GsRef(path) == [scheme |-> "gs", dir |-> path.dir, owner |-> path.owner, kind |-> path.kind]

\* variant: off by one, a fourth attempt
CanRetryOnceMore(attempt) == attempt <= MAX_RETRIES

\* downloadAndUpload line 65: another attempt follows a failed one
CanRetry(attempt) == attempt < MAX_RETRIES

\* variant: the same delay after every failed attempt
RetryDelayFixed(attempt) == RETRY_DELAY_MS

\* downloadAndUpload line 66: the delay before the next attempt
RetryDelay(attempt) == RETRY_DELAY_MS * (attempt + 1)

\* variant: the fallback loses the URL
FallbackRefEmpty(sourceUrl) == EmptyRef

\* downloadAndUpload line 69: the value returned once the attempts are used up
FallbackRef(sourceUrl) == sourceUrl

\* a reference of the track enters downloadAndUpload: first attempt in flight
BeginRef(p, phase) ==
  [p EXCEPT !.phase = phase, !.step = "download", !.attempt = 0,
            !.sleepMs = 0, !.tries[phase] = 1]

\* processTrack line 100: the track is returned
Finish(p) == [p EXCEPT !.phase = "done", !.step = "-", !.attempt = 0, !.sleepMs = 0]

\* processTrack lines 93-100
AfterAudio(p) == IF IsHttp(p.artwork) THEN BeginRef(p, "artwork") ELSE Finish(p)

\* processTrack up to its first await
processTrack(track) ==
  LET p0 == [track |-> track, phase |-> "start", step |-> "-", attempt |-> 0,
             sleepMs |-> 0, audioUrl |-> track.audioUrl, artwork |-> track.artwork,
             tries |-> [audio |-> 0, artwork |-> 0]]
  IN IF IsHttp(p0.audioUrl) THEN BeginRef(p0, "audio") ELSE AfterAudio(p0)

\* downloadAndUpload returned ref for the reference being relocated
Returned(p, ref) ==
  IF p.phase = "audio" THEN AfterAudio([p EXCEPT !.audioUrl = ref])
  ELSE Finish([p EXCEPT !.artwork = ref])

SourceUrl(p) == IF p.phase = "audio" THEN p.audioUrl ELSE p.artwork

\* variant: the returned object is not spread from the input record
TrackOutNoSpread(p) == [audioUrl |-> p.audioUrl, artwork |-> p.artwork]

\* processTrack line 100: { ...track, audioUrl, artwork }
TrackOut(p) == [p.track EXCEPT !.audioUrl = p.audioUrl, !.artwork = p.artwork]

\* variant: the window is one record too wide
WindowOfWide(tracks, i) == Slice(tracks, i, i + CONCURRENCY + 1)

\* uploadAllTrackAssets line 119: tracks.slice(i, i + CONCURRENCY)
WindowOf(tracks, i) == Slice(tracks, i, i + CONCURRENCY)

\* uploadAllTrackAssets lines 111-116
UploadEnter ==
  /\ upCall = "called"
  /\ IF Len(upTracks) = 0
       THEN /\ upCall' = "returned"
            /\ upResult' = upTracks
       ELSE /\ upCall' = "running"
            /\ upResult' = upResult
  /\ results' = <<>>
  /\ upI' = 0
  /\ proc' = <<>>
  /\ exhausted' = {}
  /\ completed' = {}
  /\ UNCHANGED upTracks
  /\ UNCHANGED <<runVars, storeVars, fetchVars, dedupVars, writeVars>>
  /\ UNCHANGED <<adapterVars, migrateVars>>

\* lines 118-122: the window's processTrack calls are started together
UploadStartWindow ==
  /\ upCall = "running"
  /\ proc = <<>>
  /\ upI < Len(upTracks)
  /\ LET chunk == WindowOf(upTracks, upI)
     IN proc' = [k \in 1..Len(chunk) |-> processTrack(chunk[k])]
  /\ UNCHANGED <<upCall, upTracks, upI, results, upResult, exhausted, completed>>
  /\ UNCHANGED <<runVars, storeVars, fetchVars, dedupVars, writeVars>>
  /\ UNCHANGED <<adapterVars, migrateVars>>

\* downloadFile resolves; uploadToStorage starts
DownloadOk(k) ==
  /\ upCall = "running"
  /\ k \in 1..Len(proc)
  /\ proc[k].step = "download"
  /\ proc' = [proc EXCEPT ![k].step = "upload"]
  /\ UNCHANGED <<upCall, upTracks, upI, results, upResult, exhausted, completed>>
  /\ UNCHANGED <<runVars, storeVars, fetchVars, dedupVars, writeVars>>
  /\ UNCHANGED <<adapterVars, migrateVars>>

\* file.save resolves: downloadAndUpload returns the gs:// path
UploadOk(k) ==
  /\ upCall = "running"
  /\ k \in 1..Len(proc)
  /\ proc[k].step = "upload"
  /\ LET path == StoragePath(proc[k].track.id, proc[k].phase)
     IN /\ bucketFiles' = bucketFiles \cup {path}
        /\ proc' = [proc EXCEPT ![k] = Returned(proc[k], GsRef(path))]
  /\ UNCHANGED <<catalog, clock>>
  /\ UNCHANGED <<upCall, upTracks, upI, results, upResult, exhausted, completed>>
  /\ UNCHANGED <<runVars, fetchVars, dedupVars, writeVars>>
  /\ UNCHANGED <<adapterVars, migrateVars>>

\* downloadFile or file.save throws: sleep and retry, or fall back
AttemptFail(k) ==
  /\ upCall = "running"
  /\ k \in 1..Len(proc)
  /\ proc[k].step \in {"download", "upload"}
  /\ proc' = [proc EXCEPT ![k] =
       IF CanRetry(proc[k].attempt)
         THEN [proc[k] EXCEPT !.step = "sleep", !.sleepMs = RetryDelay(proc[k].attempt)]
         ELSE Returned(proc[k], FallbackRef(SourceUrl(proc[k])))]
  /\ exhausted' = IF CanRetry(proc[k].attempt) THEN exhausted
                  ELSE exhausted \cup {<<proc[k].track.id, proc[k].phase>>}
  /\ UNCHANGED <<upCall, upTracks, upI, results, upResult, completed>>
  /\ UNCHANGED <<runVars, storeVars, fetchVars, dedupVars, writeVars>>
  /\ UNCHANGED <<adapterVars, migrateVars>>

\* the sleep ends: attempt++ and the next downloadFile starts
Wake(k) ==
  /\ upCall = "running"
  /\ k \in 1..Len(proc)
  /\ proc[k].step = "sleep"
  /\ proc' = [proc EXCEPT ![k].step = "download", ![k].sleepMs = 0,
                          ![k].attempt = @ + 1,
                          ![k].tries[proc[k].phase] = @ + 1]
  /\ UNCHANGED <<upCall, upTracks, upI, results, upResult, exhausted, completed>>
  /\ UNCHANGED <<runVars, storeVars, fetchVars, dedupVars, writeVars>>
  /\ UNCHANGED <<adapterVars, migrateVars>>

\* Promise.all resolves once every processTrack of the window has returned
WindowSettled(p) == \A k \in 1..Len(p) : p[k].phase = "done"

\* lines 124-132: the window's results are pushed, i += CONCURRENCY
UploadJoinWindow ==
  /\ upCall = "running"
  /\ proc # <<>>
  /\ WindowSettled(proc)
  /\ results' = results \o [k \in 1..Len(proc) |-> TrackOut(proc[k])]
  /\ upI' = upI + CONCURRENCY
  /\ proc' = <<>>
  /\ completed' = completed \cup {upI + k : k \in {j \in 1..Len(proc) : proc[j].phase = "done"}}
  /\ UNCHANGED <<upCall, upTracks, upResult, exhausted>>
  /\ UNCHANGED <<runVars, storeVars, fetchVars, dedupVars, writeVars>>
  /\ UNCHANGED <<adapterVars, migrateVars>>

\* lines 135-136: return results
UploadReturn ==
  /\ upCall = "running"
  /\ proc = <<>>
  /\ upI >= Len(upTracks)
  /\ upCall' = "returned"
  /\ upResult' = results
  /\ UNCHANGED <<upTracks, upI, proc, results, exhausted, completed>>
  /\ UNCHANGED <<runVars, storeVars, fetchVars, dedupVars, writeVars>>
  /\ UNCHANGED <<adapterVars, migrateVars>>

(* ---------------- main: MigrateAssets ---------------- *)
\* main line 92: the upload branch is taken
WillUpload == ~dryRun /\ Len(newTracks) > 0 /\ bucket

\* main lines 86-94, dry run or nothing to upload: tracksToWrite = newTracks
MigrateSkip ==
  /\ pc = "MigrateAssets"
  /\ upCall = "idle"
  /\ ~WillUpload
  /\ tracksToWrite' = newTracks
  /\ pc' = "Write"
  /\ UNCHANGED writeI
  /\ UNCHANGED <<run, dryRun, credsOk, db, bucket, summary, exitCode, prevIds, prevLive>>
  /\ UNCHANGED <<storeVars, fetchVars, dedupVars, upVars>>
  /\ UNCHANGED <<adapterVars, migrateVars>>

\* main line 93: uploadAllTrackAssets(bucket, newTracks) is called
MigrateCall ==
  /\ pc = "MigrateAssets"
  /\ upCall = "idle"
  /\ WillUpload
  /\ upCall' = "called"
  /\ upTracks' = newTracks
  /\ UNCHANGED <<upI, proc, results, upResult, exhausted, completed>>
  /\ UNCHANGED <<runVars, storeVars, fetchVars, dedupVars, writeVars>>
  /\ UNCHANGED <<adapterVars, migrateVars>>

\* main line 93: the awaited call returns
MigrateReturn ==
  /\ pc = "MigrateAssets"
  /\ upCall = "returned"
  /\ tracksToWrite' = upResult
  /\ upCall' = "idle"
  /\ pc' = "Write"
  /\ UNCHANGED writeI
  /\ UNCHANGED <<upTracks, upI, proc, results, upResult, exhausted, completed>>
  /\ UNCHANGED <<run, dryRun, credsOk, db, bucket, summary, exitCode, prevIds, prevLive>>
  /\ UNCHANGED <<storeVars, fetchVars, dedupVars>>
  /\ UNCHANGED <<adapterVars, migrateVars>>

(* ---------------- main: Write (batchWriteTracks) ---------------- *)
\* variant: the write branch does not look at the dry-run flag
WillWriteInDryRun == Len(tracksToWrite) > 0

\* main line 99: batchWriteTracks is called
WillWrite == ~dryRun /\ Len(tracksToWrite) > 0

\* variant: the slice is one record too long
BatchOfOverlap(tracks, i) == Slice(tracks, i, i + BATCH_SIZE + 1)

\* batchWriteTracks line 143: tracks.slice(i, i + BATCH_SIZE)
BatchOf(tracks, i) == Slice(tracks, i, i + BATCH_SIZE)

\* variant: only the first record of the chunk is set
CommitDocsFirstOnly(cat, chunk, now) ==
  [id \in DOMAIN cat \cup {chunk[1].id} |->
     IF id = chunk[1].id THEN [track |-> chunk[1], addedAt |-> now] ELSE cat[id]]

\* variant: every record is added under a new generated document name
CommitDocsAdd(cat, chunk, now) ==
  LET name(k) == MkId("auto", 1000 * now + k)
  IN [id \in DOMAIN cat \cup {name(k) : k \in 1..Len(chunk)} |->
        IF id \in DOMAIN cat THEN cat[id]
        ELSE [track |-> chunk[id.native - 1000 * now], addedAt |-> now]]

\* batchWriteTracks lines 146-154: one atomic batch of keyed sets
CommitDocs(cat, chunk, now) ==
  LET ids == Range(IdsOf(chunk))
      last(id) == MaxOf({k \in 1..Len(chunk) : chunk[k].id = id})
  IN [id \in DOMAIN cat \cup ids |->
        IF id \in ids THEN [track |-> chunk[last(id)], addedAt |-> now]
        ELSE cat[id]]

WriteSkip ==
  /\ pc = "Write"
  /\ ~WillWrite
  /\ pc' = "Summarize"
  /\ UNCHANGED <<run, dryRun, credsOk, db, bucket, summary, exitCode, prevIds, prevLive>>
  /\ UNCHANGED <<storeVars, fetchVars, dedupVars, upVars, writeVars>>
  /\ UNCHANGED <<adapterVars, migrateVars>>

\* batch.commit resolves
CommitChunk ==
  /\ pc = "Write"
  /\ WillWrite
  /\ writeI < Len(tracksToWrite)
  /\ clock' = clock + 1
  /\ catalog' = CommitDocs(catalog, BatchOf(tracksToWrite, writeI), clock + 1)
  /\ writeI' = writeI + BATCH_SIZE
  /\ UNCHANGED <<bucketFiles, tracksToWrite>>
  /\ UNCHANGED <<runVars, fetchVars, dedupVars, upVars>>
  /\ UNCHANGED <<adapterVars, migrateVars>>

\* variant: a rejected batch has written its first record
FailedCommitPartial(cat, chunk, now) == CommitDocs(cat, SubSeq(chunk, 1, 1), now)

\* batchWriteTracks line 154: a WriteBatch is atomic, a rejected commit has
\* applied none of its sets
FailedCommit(cat, chunk, now) == cat

\* batch.commit rejects: the rejection leaves batchWriteTracks and main
CommitFail ==
  /\ pc = "Write"
  /\ WillWrite
  /\ writeI < Len(tracksToWrite)
  /\ catalog' = FailedCommit(catalog, BatchOf(tracksToWrite, writeI), clock + 1)
  /\ pc' = "Fatal"
  /\ exitCode' = 1
  /\ UNCHANGED <<run, dryRun, credsOk, db, bucket, summary, prevIds, prevLive>>
  /\ UNCHANGED <<clock, bucketFiles>>
  /\ UNCHANGED <<fetchVars, dedupVars, upVars, writeVars>>
  /\ UNCHANGED <<adapterVars, migrateVars>>

\* batchWriteTracks returns
WriteFinish ==
  /\ pc = "Write"
  /\ WillWrite
  /\ writeI >= Len(tracksToWrite)
  /\ pc' = "Summarize"
  /\ UNCHANGED <<run, dryRun, credsOk, db, bucket, summary, exitCode, prevIds, prevLive>>
  /\ UNCHANGED <<storeVars, fetchVars, dedupVars, upVars, writeVars>>
  /\ UNCHANGED <<adapterVars, migrateVars>>

(* ---------------- main: Summarize ---------------- *)
\* main lines 103-113
Summarize ==
  /\ pc = "Summarize"
  /\ summary' = allStats
  /\ exitCode' = 0
  /\ pc' = "Done"
  /\ UNCHANGED <<run, dryRun, credsOk, db, bucket, prevIds, prevLive>>
  /\ UNCHANGED <<storeVars, fetchVars, dedupVars, upVars, writeVars>>
  /\ UNCHANGED <<adapterVars, migrateVars>>

(* ---------------- the recurring schedule ---------------- *)
\* the process has exited; the scheduler starts the next run
NextRun ==
  /\ pc \in {"Done", "Fatal"}
  /\ run < MaxRuns
  /\ run' = run + 1
  /\ pc' = "Init"
  /\ dryRun' \in BOOLEAN
  /\ credsOk' \in BOOLEAN
  /\ db' = FALSE
  /\ bucket' = FALSE
  /\ prevIds' = candIds
  /\ prevLive' = (pc = "Done" /\ ~dryRun)
  /\ settled' = NoSettlement
  /\ candIds' = {}
  /\ allTracks' = <<>>
  /\ allStats' = <<>>
  /\ existingIds' = {}
  /\ dedupI' = 0
  /\ newTracks' = <<>>
  /\ upCall' = "idle"
  /\ upTracks' = <<>>
  /\ upI' = 0
  /\ proc' = <<>>
  /\ results' = <<>>
  /\ upResult' = <<>>
  /\ exhausted' = {}
  /\ completed' = {}
  /\ tracksToWrite' = <<>>
  /\ writeI' = 0
  /\ summary' = <<>>
  /\ exitCode' = -1
  /\ UNCHANGED storeVars
  /\ UNCHANGED <<adapterVars, migrateVars>>

UploadStep ==
  \/ UploadEnter
  \/ UploadStartWindow
  \/ \E k \in DOMAIN proc : DownloadOk(k)
  \/ \E k \in DOMAIN proc : UploadOk(k)
  \/ \E k \in DOMAIN proc : AttemptFail(k)
  \/ \E k \in DOMAIN proc : Wake(k)
  \/ UploadJoinWindow
  \/ UploadReturn

Next ==
  \/ InitServices
  \/ \E a \in Adapters : AdapterFulfil(a)
  \/ \E a \in Adapters : AdapterReject(a)
  \/ FetchAllSettled
  \/ Validate
  \/ DedupChunk
  \/ DedupFail
  \/ DedupFinish
  \/ MigrateSkip
  \/ MigrateCall
  \/ UploadStep
  \/ MigrateReturn
  \/ WriteSkip
  \/ CommitChunk
  \/ CommitFail
  \/ WriteFinish
  \/ Summarize
  \/ NextRun

Spec == Init /\ [][Next]_vars

(* ---------------- a second importer running at the same time ---------------- *)
\* Another run of main passed its dedup for the same candidates while they were
\* absent, and its batchWriteTracks commits them, at any moment after this
\* run's dedup; the commits of overlapping runs are capped by MaxOverlap.
OverlapCommit ==
  /\ pc \in {"MigrateAssets", "Write", "Summarize"}
  /\ ~dryRun
  /\ newTracks # <<>>
  /\ clock < run + MaxOverlap
  /\ clock' = clock + 1
  /\ catalog' = CommitDocs(catalog, BatchOf(newTracks, 0), clock + 1)
  /\ UNCHANGED <<bucketFiles, runVars, fetchVars, dedupVars, upVars, writeVars>>
  /\ UNCHANGED <<adapterVars, migrateVars>>

\* the results hold at most MaxUploadLen valid candidates
ValidateShort == Validate /\ Len(allTracks') <= MaxUploadLen

NextOverlap ==
  \/ InitServices
  \/ \E a \in Adapters : AdapterFulfil(a)
  \/ \E a \in Adapters : AdapterReject(a)
  \/ FetchAllSettled
  \/ ValidateShort
  \/ DedupChunk
  \/ DedupFail
  \/ DedupFinish
  \/ MigrateSkip
  \/ MigrateCall
  \/ UploadStep
  \/ MigrateReturn
  \/ WriteSkip
  \/ CommitChunk
  \/ CommitFail
  \/ WriteFinish
  \/ Summarize
  \/ NextRun
  \/ OverlapCommit

SpecOverlap == Init /\ [][NextOverlap]_vars

(* ---------------- uploadAllTrackAssets on its own ---------------- *)
\* track lists handed to uploadAllTrackAssets: one window and a bit of
\* records that all need their audio relocated, and short mixed lists
UploadInputs ==
  {[k \in 1..MaxUploadLen |-> 1000 + 10 * k + 1]}
    \cup {<<>>, <<1005>>, <<1006, 1003>>, <<1003, 1001>>, <<1007, 1011, 1008>>}

\* single records and a pair, for the retry state machine
RetryInputs == {<<1005>>, <<1001>>, <<1006, 1001>>, <<1003>>}

\* main has called uploadAllTrackAssets(bucket, tracks)
InitUploadOn(inputs) ==
  /\ pc = "MigrateAssets"
  /\ run = 1
  /\ dryRun = FALSE
  /\ credsOk = TRUE
  /\ db = TRUE
  /\ bucket = TRUE
  /\ catalog = EmptyCatalog
  /\ clock = 0
  /\ bucketFiles = {}
  /\ prevIds = {}
  /\ prevLive = FALSE
  /\ settled = NoSettlement
  /\ candIds = {}
  /\ allTracks = <<>>
  /\ allStats = <<>>
  /\ existingIds = {}
  /\ dedupI = 0
  /\ \E natives \in inputs :
       /\ newTracks = TracksOf("jamendo", natives)
       /\ upTracks = TracksOf("jamendo", natives)
  /\ upCall = "called"
  /\ upI = 0
  /\ proc = <<>>
  /\ results = <<>>
  /\ upResult = <<>>
  /\ exhausted = {}
  /\ completed = {}
  /\ tracksToWrite = <<>>
  /\ writeI = 0
  /\ summary = <<>>
  /\ exitCode = -1
  /\ prov = "ccmixter"
  /\ pagesAvail = 0
  /\ shortTail = 0
  /\ AdapterIdle
  /\ MigrateIdle

InitUpload == InitUploadOn(UploadInputs)

InitRetry == InitUploadOn(RetryInputs)

NextUpload == UploadStep

SpecUpload == InitUpload /\ [][NextUpload]_vars

\* every pending download, upload and timer eventually settles
SpecRetryFair == InitRetry /\ [][NextUpload]_vars /\ WF_vars(NextUpload)

(* ---------------- batchWriteTracks on its own ---------------- *)
\* lengths of the lists handed to batchWriteTracks: around the multiples of
\* BATCH_SIZE
WriteLens ==
  {L \in 0..MaxWriteLen : L % BATCH_SIZE \in {0, 1, 2, BATCH_SIZE - 1}}

\* the records of a list of length L: metadata-only records, distinct ids
WriteInput(L) == TracksOf("jamendo", [k \in 1..L |-> 10 + k])

\* documents the catalog may hold before the call, written by an earlier run
OldDocs(natives) ==
  [id \in {MkId("jamendo", n) : n \in natives} |->
     [track |-> Track("jamendo", id.native), addedAt |-> 0]]

\* main is at the Write stage of a live run with tracksToWrite computed
InitWrite ==
  /\ pc = "Write"
  /\ run = 1
  /\ dryRun = FALSE
  /\ credsOk = TRUE
  /\ db = TRUE
  /\ bucket = TRUE
  /\ catalog \in {EmptyCatalog, OldDocs({11, 10 + BATCH_SIZE + 1, 7})}
  /\ clock = 0
  /\ bucketFiles = {}
  /\ prevIds = {}
  /\ prevLive = FALSE
  /\ settled = NoSettlement
  /\ candIds = {}
  /\ allTracks = <<>>
  /\ allStats = <<>>
  /\ existingIds = {}
  /\ dedupI = 0
  /\ \E L \in WriteLens :
       /\ newTracks = WriteInput(L)
       /\ tracksToWrite = WriteInput(L)
  /\ upCall = "idle"
  /\ upTracks = <<>>
  /\ upI = 0
  /\ proc = <<>>
  /\ results = <<>>
  /\ upResult = <<>>
  /\ exhausted = {}
  /\ completed = {}
  /\ writeI = 0
  /\ summary = <<>>
  /\ exitCode = -1
  /\ prov = "ccmixter"
  /\ pagesAvail = 0
  /\ shortTail = 0
  /\ AdapterIdle
  /\ MigrateIdle

NextWrite ==
  \/ WriteSkip
  \/ CommitChunk
  \/ CommitFail
  \/ WriteFinish
  \/ Summarize

SpecWrite == InitWrite /\ [][NextWrite]_vars

(* ---------------- provider adapters: one call ---------------- *)
\* variant: every loop step selects the partition at the rotation index
PartitionAtStart(idx, i, P) == idx % P

\* ccmixter.ts line 66: the partition index selected at loop step i
PartitionAt(idx, i, P) == (idx + i) % P

\* variant: the rotation index advances by one
NextIndexByOne(idx, N, P) == (idx + 1) % P

\* ccmixter.ts line 141: the rotation index written back
NextIndex(idx, N, P) == (idx + N) % P

\* variant: the stored offset is ignored
OffsetOfZero(offs, name) == 0

\* state.offsetByType[contentType] || 0
OffsetOf(offs, name) == IF name \in DOMAIN offs THEN offs[name] ELSE 0

\* state.offsetByType[contentType] = v
SetOffset(offs, name, v) ==
  [n \in DOMAIN offs \cup {name} |-> IF n = name THEN v ELSE offs[n]]

\* Discogs asks for a page number, not an offset
DiscogsPage(offset, size) == (offset \div size) + 1

PartitionCount == Len(PartitionsOf(prov))
CurIdx == PartitionAt(st.idx, loopI, PartitionCount)
CurName == PartitionsOf(prov)[CurIdx + 1]

\* the offset of the request the loop is about to issue
CurOffset ==
  CASE prov = "bandcamp" -> pg * PageSize(prov)
    [] prov = "discogs" ->
         (DiscogsPage(OffsetOf(st.offsets, CurName), PageSize(prov)) - 1) * PageSize(prov)
    [] OTHER -> OffsetOf(st.offsets, CurName)

\* the shape of the records an adapter builds (see Kind): ccMixter and
\* Bandcamp records carry an audio URL and an artwork URL, MusicBrainz and
\* Discogs records an artwork URL and an empty audioUrl
AdapterKind(p) == IF p \in {"ccmixter", "bandcamp"} THEN 5 ELSE 6

\* what the provider holds: pagesAvail full pages of each partition, then a
\* page of shortTail records, then nothing
PageLen(offset) ==
  IF offset < pagesAvail * PageSize(prov) THEN PageSize(prov)
  ELSE IF offset = pagesAvail * PageSize(prov) THEN shortTail
  ELSE 0

\* native ids of the records of a page; neighbouring partitions overlap, and
\* a full page lists its first item once more at its end
RawItems(part, offset) ==
  [k \in 1..PageLen(offset) |->
     IF k > 1 /\ k = PageSize(prov) THEN part + offset + 1 ELSE part + offset + k]

\* what the provider holds: every third item lacks a mandatory field (its
\* artwork, say)
HasMandatoryFields(r) == r % 3 # 2

\* ccmixter.ts lines 95 and 106: items lacking a mandatory field are skipped;
\* line 108: the native id of the record built from an item
PageItems(part, offset) ==
  LET kept == SelectSeq(RawItems(part, offset), HasMandatoryFields)
  IN [k \in 1..Len(kept) |-> 1000 + 10 * kept[k] + AdapterKind(prov)]

\* variant: no seen set
AppendAll(tracks, items) == tracks \o items

\* if (seen.has(id)) continue; seen.add(id); tracks.push(...), item by item:
\* an item is pushed when its id is neither among the records gathered before
\* the page nor borne by an earlier item of the page
AppendUnseen(tracks, items) ==
  LET before == Range(tracks)
      first == SelectSeq([k \in 1..Len(items) |-> k],
                         LAMBDA k : /\ items[k] \notin before
                                    /\ \A j \in 1..(k - 1) : items[j] # items[k])
  IN tracks \o [i \in 1..Len(first) |-> items[first[i]]]

\* leave the page loop of the partition (Bandcamp), or go to the next partition
\* variant: leaving the page loop also leaves the partition loop
BreakAll == <<PerRun(prov), 0>>

Break == <<loopI + 1, 0>>

\* go to the next iteration of the innermost loop
Continue ==
  IF prov = "bandcamp" /\ pg + 1 < PAGES_PER_GENRE
  THEN <<loopI, pg + 1>>
  ELSE <<loopI + 1, 0>>

\* the request is issued; got is the number of raw items of the response,
\* outcome how it ended (http: a non-OK status, throw: fetch or the handling
\* of the response threw, empty: no records, page: records), slept becomes
\* true when the adapter has slept after it
Logged(got, outcome) ==
  /\ reqLog' = Append(reqLog, [part |-> CurIdx, offset |-> CurOffset, got |-> got,
                                outcome |-> outcome, slept |-> FALSE])
  /\ queried' = queried \cup {CurIdx}

InLoop == apc = "loop" /\ loopI < PerRun(prov)

envVars == <<prov, pagesAvail, shortTail>>

\* variant: the token is never looked at
TokenMissingNever(p, tok) == FALSE

\* fetchDiscogs lines 221-222: if (!discogsToken), before anything else
TokenMissing(p, tok) == p = "discogs" /\ ~tok

AdapterCall(d, tok) ==
  /\ apc = "idle"
  /\ runsDone < MaxCalls
  /\ prov # "discogs" => tok
  /\ hasDb' = d
  /\ hasToken' = tok
  /\ st' = DefaultState
  /\ loopI' = 0
  /\ pg' = 0
  /\ aTracks' = <<>>
  /\ reqLog' = <<>>
  /\ loadStatus' = "none"
  /\ newState' = NoDoc
  /\ saveStatus' = "none"
  /\ docOps' = <<>>
  /\ IF TokenMissing(prov, tok)
     THEN aErrors' = 1 /\ apc' = "return"
     ELSE aErrors' = 0 /\ apc' = (IF d THEN "load" ELSE "loop")
  /\ UNCHANGED <<envVars, stateDoc, faults, runsDone, cleanRuns, queried>>
  /\ UNCHANGED <<pipelineVars, migrateVars>>

\* variant: every provider keeps its progress under one path
STATE_DOC_Shared(p) == "import-state/state"

\* ccmixter.ts line 8, musicbrainz.ts line 8, bandcamp.ts line 9, part_002
\* line 190: const STATE_DOC
STATE_DOC(p) ==
  CASE p = "ccmixter" -> "import-state/ccmixter"
    [] p = "musicbrainz" -> "import-state/musicbrainz"
    [] p = "bandcamp" -> "import-state/bandcamp"
    [] p = "discogs" -> "import-state/discogs"

\* db.doc(STATE_DOC).get() or .set(...) is called, after Len(reqLog) requests
DocOp(op) ==
  docOps' = Append(docOps, [op |-> op, path |-> STATE_DOC(prov), at |-> Len(reqLog)])

LoadOk ==
  /\ apc = "load"
  /\ st' = IF stateDoc.exists
           THEN [idx |-> stateDoc.idx, offsets |-> stateDoc.offsets,
                 lastRun |-> stateDoc.lastRun]
           ELSE st
  /\ loadStatus' = "ok"
  /\ DocOp("get")
  /\ apc' = "loop"
  /\ UNCHANGED <<envVars, stateDoc, hasDb, hasToken, loopI, pg, aTracks, aErrors,
                 reqLog, newState, saveStatus, faults, runsDone, cleanRuns, queried>>
  /\ UNCHANGED <<pipelineVars, migrateVars>>

\* variant: the catch block of the load pushes an error
CaughtLoadPushed(errs) == errs + 1

\* ccmixter.ts lines 57-59: the catch block of the load only logs
CaughtLoad(errs) == errs

LoadFail ==
  /\ apc = "load"
  /\ faults < MaxFaults
  /\ faults' = faults + 1
  /\ loadStatus' = "failed"
  /\ aErrors' = CaughtLoad(aErrors)
  /\ DocOp("get")
  /\ apc' = "loop"
  /\ UNCHANGED <<envVars, stateDoc, hasDb, hasToken, st, loopI, pg, aTracks,
                 reqLog, newState, saveStatus, runsDone, cleanRuns, queried>>
  /\ UNCHANGED <<pipelineVars, migrateVars>>

\* variant: a failed request advances the offset like a received page
AfterFailureAdvance(offs, name) ==
  SetOffset(offs, name, OffsetOf(offs, name) + PageSize(prov))

\* ccmixter.ts lines 83-86 and 132-134: neither the non-OK branch nor the
\* catch block touches state.offsetByType
AfterFailure(offs, name) == offs

\* where the try block throws: in fetch or response.json(), before any item
\* is handled (0), or while the items are handled, after the first kept item
\* was pushed (1)
ThrowPoints == {0} \cup (IF Len(PageItems(CurIdx, CurOffset)) > 0 THEN {1} ELSE {})

RequestHttpFail ==
  /\ InLoop
  /\ faults < MaxFaults
  /\ faults' = faults + 1
  /\ Logged(0, "http")
  /\ aErrors' = aErrors + 1
  /\ st' = [st EXCEPT !.offsets = AfterFailure(@, CurName)]
  /\ loopI' = Break[1] /\ pg' = Break[2]
  /\ UNCHANGED <<envVars, stateDoc, apc, hasDb, hasToken, aTracks,
                 loadStatus, newState, saveStatus, runsDone, cleanRuns, docOps>>
  /\ UNCHANGED <<pipelineVars, migrateVars>>

RequestThrow ==
  /\ InLoop
  /\ faults < MaxFaults
  /\ faults' = faults + 1
  /\ \E n \in ThrowPoints :
       /\ Logged(IF n = 0 THEN 0 ELSE PageLen(CurOffset), "throw")
       /\ aTracks' = AppendUnseen(aTracks, SubSeq(PageItems(CurIdx, CurOffset), 1, n))
  /\ aErrors' = aErrors + 1
  /\ st' = [st EXCEPT !.offsets = AfterFailure(@, CurName)]
  /\ loopI' = Continue[1] /\ pg' = Continue[2]
  /\ UNCHANGED <<envVars, stateDoc, apc, hasDb, hasToken,
                 loadStatus, newState, saveStatus, runsDone, cleanRuns, docOps>>
  /\ UNCHANGED <<pipelineVars, migrateVars>>

\* variant: an empty page leaves the stored offset as it is
AfterEmptyKeep(offs, name) == offs

\* ccmixter.ts line 90: state.offsetByType[contentType] = 0; // Reset
AfterEmpty(offs, name) == SetOffset(offs, name, 0)

\* ccmixter.ts lines 88-92: the response has no records
RequestEmpty ==
  /\ InLoop
  /\ PageLen(CurOffset) = 0
  /\ Logged(0, "empty")
  /\ st' = IF prov = "bandcamp" THEN st
           ELSE [st EXCEPT !.offsets = AfterEmpty(@, CurName)]
  /\ loopI' = Break[1] /\ pg' = Break[2]
  /\ UNCHANGED <<envVars, stateDoc, apc, hasDb, hasToken, aTracks, aErrors,
                 loadStatus, newState, saveStatus, faults, runsDone, cleanRuns, docOps>>
  /\ UNCHANGED <<pipelineVars, migrateVars>>

\* variant: the offset advances by the number of records built from the page
AdvanceByKept(offset, kept) == offset + kept

\* ccmixter.ts line 130: state.offsetByType[contentType] = offset + PAGE_SIZE
Advance(offset, kept) == offset + PageSize(prov)

RequestPage ==
  /\ InLoop
  /\ PageLen(CurOffset) > 0
  /\ Logged(PageLen(CurOffset), "page")
  /\ aTracks' = AppendUnseen(aTracks, PageItems(CurIdx, CurOffset))
  /\ IF prov = "bandcamp"
     THEN /\ st' = st
          /\ IF PageLen(CurOffset) < PageSize(prov)
             THEN loopI' = Break[1] /\ pg' = Break[2] /\ apc' = "loop"
             ELSE UNCHANGED <<loopI, pg>> /\ apc' = "sleep"
     ELSE /\ st' = [st EXCEPT !.offsets =
                      SetOffset(@, CurName,
                                Advance(OffsetOf(st.offsets, CurName),
                                        Len(PageItems(CurIdx, CurOffset))))]
          /\ UNCHANGED <<loopI, pg>>
          /\ apc' = "sleep"
  /\ UNCHANGED <<envVars, stateDoc, hasDb, hasToken, aErrors,
                 loadStatus, newState, saveStatus, faults, runsDone, cleanRuns, docOps>>
  /\ UNCHANGED <<pipelineVars, migrateVars>>

\* await sleep(...) at the end of the loop body has elapsed
AdapterWake ==
  /\ apc = "sleep"
  /\ loopI' = Continue[1] /\ pg' = Continue[2]
  /\ apc' = "loop"
  /\ reqLog' = [reqLog EXCEPT ![Len(reqLog)].slept = TRUE]
  /\ UNCHANGED <<envVars, stateDoc, hasDb, hasToken, st, aTracks, aErrors,
                 loadStatus, newState, saveStatus, faults, runsDone, cleanRuns, queried, docOps>>
  /\ UNCHANGED <<pipelineVars, migrateVars>>

LoopExit ==
  /\ apc = "loop"
  /\ loopI = PerRun(prov)
  /\ apc' = (IF hasDb THEN "save" ELSE "return")
  /\ UNCHANGED <<envVars, stateDoc, hasDb, hasToken, st, loopI, pg, aTracks, aErrors, reqLog,
                 loadStatus, newState, saveStatus, faults, runsDone, cleanRuns, queried, docOps>>
  /\ UNCHANGED <<pipelineVars, migrateVars>>

\* the newState object of the save block
NewStateOf(state) ==
  [exists |-> TRUE,
   idx |-> NextIndex(state.idx, PerRun(prov), PartitionCount),
   offsets |-> IF prov = "bandcamp" THEN NoOffsets ELSE state.offsets,
   lastRun |-> runsDone + 1]

SaveOk ==
  /\ apc = "save"
  /\ newState' = NewStateOf(st)
  /\ stateDoc' = NewStateOf(st)
  /\ saveStatus' = "ok"
  /\ DocOp("set")
  /\ apc' = "return"
  /\ UNCHANGED <<envVars, hasDb, hasToken, st, loopI, pg, aTracks, aErrors, reqLog,
                 loadStatus, faults, runsDone, cleanRuns, queried>>
  /\ UNCHANGED <<pipelineVars, migrateVars>>

SaveFail ==
  /\ apc = "save"
  /\ faults < MaxFaults
  /\ faults' = faults + 1
  /\ newState' = NewStateOf(st)
  /\ saveStatus' = "failed"
  /\ DocOp("set")
  /\ apc' = "return"
  /\ UNCHANGED <<envVars, stateDoc, hasDb, hasToken, st, loopI, pg, aTracks, aErrors, reqLog,
                 loadStatus, runsDone, cleanRuns, queried>>
  /\ UNCHANGED <<pipelineVars, migrateVars>>

\* return { sourceName: SOURCE, tracks, errors }
ReturnResult ==
  /\ apc = "return"
  /\ apc' = "idle"
  /\ IF reqLog # <<>>
     THEN /\ runsDone' = runsDone + 1
          /\ cleanRuns' = (cleanRuns /\ hasDb /\ loadStatus = "ok" /\ saveStatus = "ok")
     ELSE UNCHANGED <<runsDone, cleanRuns>>
  /\ UNCHANGED <<envVars, stateDoc, hasDb, hasToken, st, loopI, pg, aTracks, aErrors, reqLog,
                 loadStatus, newState, saveStatus, faults, queried, docOps>>

AdapterReturn ==
  /\ ReturnResult
  /\ UNCHANGED <<pipelineVars, migrateVars>>

InitAdapter ==
  /\ dryRun = FALSE
  /\ credsOk = TRUE
  /\ PipelineStart
  /\ prov \in Providers
  /\ pagesAvail \in 0..MaxPages
  /\ shortTail \in {0, MaxShort}
  /\ AdapterIdle
  /\ MigrateIdle

NextAdapter ==
  \/ \E d \in BOOLEAN, tok \in BOOLEAN : AdapterCall(d, tok)
  \/ LoadOk
  \/ LoadFail
  \/ RequestHttpFail
  \/ RequestThrow
  \/ RequestEmpty
  \/ RequestPage
  \/ AdapterWake
  \/ LoopExit
  \/ SaveOk
  \/ SaveFail
  \/ AdapterReturn

SpecAdapter == InitAdapter /\ [][NextAdapter]_vars

(* ---------------- main with a provider adapter behind it ---------------- *)
\* the adapter of the Promise.allSettled array that is run step by step
Stepped == 2

\* main line 23: the adapter is called with main's db (null in a dry run)
LaunchAdapter ==
  /\ pc = "FetchAll"
  /\ settled[Stepped].status = "pending"
  /\ AdapterCall(db, TRUE)

\* the adapter returns its SourceResult and its promise fulfils with it
AdapterSettle ==
  /\ pc = "FetchAll"
  /\ settled[Stepped].status = "pending"
  /\ ReturnResult
  /\ settled' = [settled EXCEPT ![Stepped] =
       [status |-> "fulfilled", sourceName |-> prov,
        tracks |-> TracksOf(prov, aTracks),
        errors |-> [k \in 1..aErrors |-> "error"]]]
  /\ UNCHANGED <<candIds, allTracks, allStats>>
  /\ UNCHANGED <<runVars, storeVars, dedupVars, upVars, writeVars, migrateVars>>

InitRun ==
  /\ dryRun \in BOOLEAN
  /\ credsOk \in BOOLEAN
  /\ PipelineStart
  /\ prov = Sources[Stepped]
  /\ pagesAvail = 0
  /\ shortTail \in {0, 1}
  /\ AdapterIdle
  /\ MigrateIdle

NextRunning ==
  \/ InitServices
  \/ \E a \in Adapters \ {Stepped} : AdapterFulfil(a)
  \/ \E a \in Adapters \ {Stepped} : AdapterReject(a)
  \/ LaunchAdapter
  \/ LoadOk
  \/ LoadFail
  \/ RequestHttpFail
  \/ RequestThrow
  \/ RequestEmpty
  \/ RequestPage
  \/ AdapterWake
  \/ LoopExit
  \/ SaveOk
  \/ SaveFail
  \/ AdapterSettle
  \/ FetchAllSettled
  \/ Validate
  \/ DedupChunk
  \/ DedupFail
  \/ DedupFinish
  \/ MigrateSkip
  \/ MigrateCall
  \/ UploadStep
  \/ MigrateReturn
  \/ WriteSkip
  \/ CommitChunk
  \/ CommitFail
  \/ WriteFinish
  \/ Summarize

SpecRun == InitRun /\ [][NextRunning]_vars

(* ---------------- live runs of main, one after another ---------------- *)
\* the scheduler starts the next live run of the pipeline; the catalog and the
\* provider's progress document are what the run before left
Rerun ==
  /\ NextRun
  /\ ~dryRun'
  /\ credsOk'

InitRerun ==
  /\ InitRun
  /\ ~dryRun
  /\ credsOk

NextRerun ==
  \/ InitServices
  \/ \E a \in Adapters \ {Stepped} : AdapterReject(a)
  \/ LaunchAdapter
  \/ LoadOk
  \/ LoadFail
  \/ RequestHttpFail
  \/ RequestThrow
  \/ RequestEmpty
  \/ RequestPage
  \/ AdapterWake
  \/ LoopExit
  \/ SaveOk
  \/ SaveFail
  \/ AdapterSettle
  \/ FetchAllSettled
  \/ Validate
  \/ DedupChunk
  \/ DedupFail
  \/ DedupFinish
  \/ MigrateSkip
  \/ MigrateCall
  \/ UploadStep
  \/ MigrateReturn
  \/ WriteSkip
  \/ CommitChunk
  \/ CommitFail
  \/ WriteFinish
  \/ Summarize
  \/ Rerun

SpecRerun == InitRerun /\ [][NextRerun]_vars

(* ---------------- the gs:// to HTTPS migration utility ---------------- *)
\* JavaScript's Infinity and NaN
Infinity == -1
NaN == -2

\* a < b on a count a and a number b
LessThan(a, b) == IF b = Infinity THEN TRUE ELSE IF b = NaN THEN FALSE ELSE a < b

\* values of process.env.LIMIT: unset, decimal texts, a text that is no number
CapValues == {0, 1, CONCURRENCY, CONCURRENCY + 2, MaxCap}
LimitEnvs == {"", "abc"} \cup {ToString(n) : n \in CapValues}

parseInt(text) ==
  IF \E n \in CapValues : ToString(n) = text
    THEN CHOOSE n \in CapValues : ToString(n) = text
    ELSE NaN

\* main line 62
LimitOf(env) == IF env # "" THEN parseInt(env) ELSE Infinity

\* orderBy('__name__'): the ids of a collection in the order of their
\* strings; native ids of one prefix have the same number of digits here
PrefixOrder == <<"", "bandcamp", "ccmixter", "discogs", "jamendo", "musicbrainz">>
PrefixRank(p) == CHOOSE k \in 1..Len(PrefixOrder) : PrefixOrder[k] = p
IdBefore(a, b) ==
  \/ PrefixRank(a.prefix) < PrefixRank(b.prefix)
  \/ a.prefix = b.prefix /\ a.native < b.native

Ascending(N) ==
  IF N = {} THEN <<>>
  ELSE SelectSeq([k \in 1..(MaxOf(N) + 1) |-> k - 1], LAMBDA n : n \in N)

RECURSIVE OrderedFrom(_, _)
OrderedFrom(S, r) ==
  IF r > Len(PrefixOrder) THEN <<>>
  ELSE LET natives == Ascending({id.native : id \in {x \in S : x.prefix = PrefixOrder[r]}})
       IN [k \in 1..Len(natives) |-> MkId(PrefixOrder[r], natives[k])]
            \o OrderedFrom(S, r + 1)

OrderByName(S) == OrderedFrom(S, 1)

\* main lines 82-94: collection('tracks').orderBy('__name__')
\* [.startAfter(lastDoc)].limit(PAGE_SIZE).get()
PageAfter(cat, last) ==
  LET after == SelectSeq(OrderByName(DOMAIN cat),
                         LAMBDA id : last = NoId \/ IdBefore(last, id))
  IN SubSeq(after, 1, Min(PAGE_SIZE, Len(after)))

\* String.prototype.startsWith('gs://') on a reference
NeedsFix(ref) == ref.scheme = "gs"

\* gsToHttps line 27: the reference has an object path after the bucket name
MatchPath(ref) == ref.kind # ""
PathOf(ref) == [dir |-> ref.dir, owner |-> ref.owner, kind |-> ref.kind]

\* gsToHttps line 53: the download URL of an object under a token
DownloadUrl(path, token) ==
  [scheme |-> "http", dir |-> path.dir, owner |-> path.owner, kind |-> path.kind,
   token |-> token]

\* crypto.randomUUID(): a token no object has
NewToken == Cardinality(DOMAIN fileTokens) + 1

NoUpdates == [f \in {} |-> EmptyRef]
Finished == {"done", "rejected"}

\* what other parts of the system hold while the utility runs
importVars == <<runVars, clock, bucketFiles, fetchVars, dedupVars, upVars, writeVars,
                adapterVars>>

\* main lines 60-85
MigrateStart(env) ==
  /\ migPc = "idle"
  /\ IF initFirebaseAdmin(credsOk)
     THEN /\ migPc' = "while"
          /\ limitCount' = LimitOf(env)
          /\ hasMore' = TRUE
     ELSE /\ migPc' = "fatal"
          /\ UNCHANGED <<limitCount, hasMore>>
  /\ UNCHANGED <<stats, lastDoc, docs, chunkI, inflight, fileTokens, throws>>
  /\ UNCHANGED <<catalog, importVars>>

WhileTest == hasMore /\ LessThan(stats.total, limitCount)

\* main lines 87-99: the next page is read
QueryPage ==
  /\ migPc = "while"
  /\ WhileTest
  /\ LET snapshot == PageAfter(catalog, lastDoc)
     IN IF snapshot = <<>>
        THEN /\ hasMore' = FALSE
             /\ migPc' = "summary"
             /\ UNCHANGED <<docs, lastDoc, chunkI>>
        ELSE /\ docs' = snapshot
             /\ lastDoc' = snapshot[Len(snapshot)]
             /\ chunkI' = 0
             /\ migPc' = "for"
             /\ UNCHANGED hasMore
  /\ UNCHANGED <<limitCount, stats, inflight, fileTokens, throws>>
  /\ UNCHANGED <<catalog, importVars>>

\* main line 95: query.get() rejects, main rejects, exit 1
QueryThrow ==
  /\ migPc = "while"
  /\ WhileTest
  /\ throws < MaxThrows
  /\ throws' = throws + 1
  /\ migPc' = "fatal"
  /\ UNCHANGED <<limitCount, stats, hasMore, lastDoc, docs, chunkI, inflight, fileTokens>>
  /\ UNCHANGED <<catalog, importVars>>

\* main line 87: the while condition is false
WhileExit ==
  /\ migPc = "while"
  /\ ~WhileTest
  /\ migPc' = "summary"
  /\ UNCHANGED <<limitCount, stats, hasMore, lastDoc, docs, chunkI, inflight, fileTokens,
                 throws>>
  /\ UNCHANGED <<catalog, importVars>>

\* main line 102: docs.slice(i, Math.min(i + CONCURRENCY, docs.length))
ChunkOfDocs(ds, i) == Slice(ds, i, Min(i + CONCURRENCY, Len(ds)))

ForTest == chunkI < Len(docs) /\ LessThan(stats.total, limitCount)

\* variant: the dry-run flag is not looked at
FirstStageLive(id) ==
  LET t == catalog[id].track
  IN IF ~NeedsFix(t.artwork) /\ ~NeedsFix(t.audioUrl) THEN "skipped" ELSE "exists"

\* main lines 106-126: what a callback does before its first await
FirstStage(id) ==
  LET t == catalog[id].track
  IN IF ~NeedsFix(t.artwork) /\ ~NeedsFix(t.audioUrl) THEN "skipped"
     ELSE IF dryRun THEN "wouldFix"
     ELSE "exists"

Callback(id) ==
  [id |-> id,
   stage |-> IF FirstStage(id) = "exists" THEN "exists" ELSE "done",
   field |-> IF NeedsFix(catalog[id].track.artwork) THEN "artwork" ELSE "audioUrl",
   updates |-> NoUpdates]

CountOf(chunk, what) == Cardinality({k \in 1..Len(chunk) : FirstStage(chunk[k]) = what})

\* main lines 101-126: chunk.map starts every callback of the chunk; each one
\* counts its record in total and runs up to its first await
StartChunk ==
  /\ migPc = "for"
  /\ ForTest
  /\ LET chunk == ChunkOfDocs(docs, chunkI)
     IN /\ inflight' = [k \in 1..Len(chunk) |-> Callback(chunk[k])]
        /\ stats' = [stats EXCEPT !.total = @ + Len(chunk),
                                  !.skipped = @ + CountOf(chunk, "skipped"),
                                  !.migrated = @ + CountOf(chunk, "wouldFix")]
  /\ migPc' = "chunk"
  /\ UNCHANGED <<limitCount, hasMore, lastDoc, docs, chunkI, fileTokens, throws>>
  /\ UNCHANGED <<catalog, importVars>>

\* main line 101: the for condition is false
ForExit ==
  /\ migPc = "for"
  /\ ~ForTest
  /\ migPc' = "while"
  /\ UNCHANGED <<limitCount, stats, hasMore, lastDoc, docs, chunkI, inflight, fileTokens,
                 throws>>
  /\ UNCHANGED <<catalog, importVars>>

\* the reference callback k is converting
CurRef(k) == catalog[inflight[k].id].track[inflight[k].field]

Running(k, stage) ==
  /\ migPc = "chunk"
  /\ k \in DOMAIN inflight
  /\ inflight[k].stage = stage

\* main lines 133-136 and 144-147: gsToHttps returned null
ConversionFailed(k) ==
  /\ inflight' = [inflight EXCEPT ![k].stage = "done"]
  /\ stats' = [stats EXCEPT !.failed = @ + 1,
                            !.failedIds = Append(@, inflight[k].id)]

\* main lines 131-132 and 142-143: gsToHttps returned a URL
Converted(k, url) ==
  LET c == inflight[k]
      updates == [f \in DOMAIN c.updates \cup {c.field} |->
                    IF f = c.field THEN url ELSE c.updates[f]]
      audioNext == c.field = "artwork" /\ NeedsFix(catalog[c.id].track.audioUrl)
  IN inflight' = [inflight EXCEPT ![k] =
       [id |-> c.id,
        stage |-> IF audioNext THEN "exists" ELSE "update",
        field |-> IF audioNext THEN "audioUrl" ELSE c.field,
        updates |-> updates]]

\* gsToHttps lines 27-38: no object path, or file.exists() says no: null
GsExists(k) ==
  /\ Running(k, "exists")
  /\ IF MatchPath(CurRef(k)) /\ PathOf(CurRef(k)) \in bucketFiles
     THEN /\ inflight' = [inflight EXCEPT ![k].stage = "getMetadata"]
          /\ UNCHANGED stats
     ELSE ConversionFailed(k)
  /\ UNCHANGED <<migPc, limitCount, hasMore, lastDoc, docs, chunkI, fileTokens, throws>>
  /\ UNCHANGED <<catalog, importVars>>

\* gsToHttps lines 54-57: a call on the file throws, caught: null
GsThrow(k) ==
  /\ \/ Running(k, "exists") /\ MatchPath(CurRef(k))
     \/ Running(k, "getMetadata")
     \/ Running(k, "setMetadata")
  /\ throws < MaxThrows
  /\ throws' = throws + 1
  /\ ConversionFailed(k)
  /\ UNCHANGED <<migPc, limitCount, hasMore, lastDoc, docs, chunkI, fileTokens>>
  /\ UNCHANGED <<catalog, importVars>>

\* variant: a token is minted whatever the metadata holds
NeedsTokenAlways(tokens, path) == TRUE

\* gsToHttps line 43: if (!token)
NeedsToken(tokens, path) == path \notin DOMAIN tokens

\* gsToHttps lines 41-44 and 52-53: the token of the metadata, reused when set
GsGetMetadata(k) ==
  /\ Running(k, "getMetadata")
  /\ LET path == PathOf(CurRef(k))
     IN IF NeedsToken(fileTokens, path)
        THEN inflight' = [inflight EXCEPT ![k].stage = "setMetadata"]
        ELSE Converted(k, DownloadUrl(path, fileTokens[path]))
  /\ UNCHANGED <<migPc, limitCount, stats, hasMore, lastDoc, docs, chunkI, fileTokens,
                 throws>>
  /\ UNCHANGED <<catalog, importVars>>

\* gsToHttps lines 44-53: a new token is set on the file
GsSetMetadata(k) ==
  /\ Running(k, "setMetadata")
  /\ LET path == PathOf(CurRef(k))
         token == NewToken
     IN /\ fileTokens' = [f \in DOMAIN fileTokens \cup {path} |->
                            IF f = path THEN token ELSE fileTokens[f]]
        /\ Converted(k, DownloadUrl(path, token))
  /\ UNCHANGED <<migPc, limitCount, stats, hasMore, lastDoc, docs, chunkI, throws>>
  /\ UNCHANGED <<catalog, importVars>>

\* variant: of the updates only the artwork is written
UpdatedArtworkOnly(doc, updates) ==
  [doc EXCEPT !.track =
     [f \in DOMAIN doc.track |->
        IF f = "artwork" /\ f \in DOMAIN updates THEN updates[f] ELSE doc.track[f]]]

\* the document after doc.ref.update(updates)
Updated(doc, updates) ==
  [doc EXCEPT !.track =
     [f \in DOMAIN doc.track |->
        IF f \in DOMAIN updates THEN updates[f] ELSE doc.track[f]]]

\* main lines 150-151: the record is updated and counted as migrated
DocUpdate(k) ==
  /\ Running(k, "update")
  /\ catalog' = [catalog EXCEPT ![inflight[k].id] = Updated(@, inflight[k].updates)]
  /\ stats' = [stats EXCEPT !.migrated = @ + 1]
  /\ inflight' = [inflight EXCEPT ![k].stage = "done"]
  /\ UNCHANGED <<migPc, limitCount, hasMore, lastDoc, docs, chunkI, fileTokens, throws>>
  /\ UNCHANGED importVars

\* main line 150: doc.ref.update rejects, and so does the callback
DocUpdateThrow(k) ==
  /\ Running(k, "update")
  /\ throws < MaxThrows
  /\ throws' = throws + 1
  /\ inflight' = [inflight EXCEPT ![k].stage = "rejected"]
  /\ UNCHANGED <<migPc, limitCount, stats, hasMore, lastDoc, docs, chunkI, fileTokens>>
  /\ UNCHANGED <<catalog, importVars>>

\* main lines 104 and 101: Promise.allSettled resolves, i += CONCURRENCY
ChunkSettled ==
  /\ migPc = "chunk"
  /\ \A k \in DOMAIN inflight : inflight[k].stage \in Finished
  /\ chunkI' = chunkI + CONCURRENCY
  /\ inflight' = <<>>
  /\ migPc' = "for"
  /\ UNCHANGED <<limitCount, stats, hasMore, lastDoc, docs, fileTokens, throws>>
  /\ UNCHANGED <<catalog, importVars>>

\* main lines 161-172: the summary is logged and main returns
MigrateSummary ==
  /\ migPc = "summary"
  /\ migPc' = "done"
  /\ UNCHANGED <<limitCount, stats, hasMore, lastDoc, docs, chunkI, inflight, fileTokens,
                 throws>>
  /\ UNCHANGED <<catalog, importVars>>

\* the catalog sizes tried: empty, less than a chunk, more than a chunk, more
\* than a page
CatalogSizes == {0, 2, CONCURRENCY + 2, MaxScan}

\* the k-th record of the stored catalog: records 1 and 6 have both references
\* in the bucket, record 2 its audio, record 3 a reference without object path,
\* the others external URLs
StoredNative(k) ==
  1000 + 10 * k + (IF k \in {1, 6} THEN 8 ELSE IF k = 2 THEN 7 ELSE IF k = 3 THEN 9 ELSE 5)

StoredCatalog(N) == OldDocs({StoredNative(k) : k \in 1..N})

\* the objects the references of a catalog name
ObjectsOf(cat) ==
  UNION {{PathOf(cat[id].track[f]) :
            f \in {g \in {"artwork", "audioUrl"} :
                     NeedsFix(cat[id].track[g]) /\ MatchPath(cat[id].track[g])}} :
         id \in DOMAIN cat}

\* the utility is started on a catalog an importer has filled
InitMigrate ==
  /\ pc = "Done"
  /\ run = 1
  /\ dryRun \in BOOLEAN
  /\ credsOk \in BOOLEAN
  /\ db = FALSE
  /\ bucket = FALSE
  /\ \E N \in CatalogSizes :
       /\ catalog = StoredCatalog(N)
       /\ \E missing \in {{}, {PathOf(StoredRef(MkId("jamendo", StoredNative(1)), "mp3"))}} :
            bucketFiles = ObjectsOf(StoredCatalog(N)) \ missing
  /\ clock = 0
  /\ prevIds = {}
  /\ prevLive = FALSE
  /\ settled = NoSettlement
  /\ candIds = {}
  /\ allTracks = <<>>
  /\ allStats = <<>>
  /\ existingIds = {}
  /\ dedupI = 0
  /\ newTracks = <<>>
  /\ upCall = "idle"
  /\ upTracks = <<>>
  /\ upI = 0
  /\ proc = <<>>
  /\ results = <<>>
  /\ upResult = <<>>
  /\ exhausted = {}
  /\ completed = {}
  /\ tracksToWrite = <<>>
  /\ writeI = 0
  /\ summary = <<>>
  /\ exitCode = 0
  /\ prov = "ccmixter"
  /\ pagesAvail = 0
  /\ shortTail = 0
  /\ AdapterIdle
  /\ migPc = "idle"
  /\ limitCount = 0
  /\ stats = NoStats
  /\ hasMore = FALSE
  /\ lastDoc = NoId
  /\ docs = <<>>
  /\ chunkI = 0
  /\ inflight = <<>>
  /\ \E held \in SUBSET {PathOf(StoredRef(MkId("jamendo", StoredNative(2)), "mp3"))} :
       fileTokens = [path \in held \cap bucketFiles |-> 900]
  /\ throws = 0

NextMigrate ==
  \/ \E env \in LimitEnvs : MigrateStart(env)
  \/ QueryPage
  \/ QueryThrow
  \/ WhileExit
  \/ StartChunk
  \/ ForExit
  \/ \E k \in 1..CONCURRENCY : GsExists(k)
  \/ \E k \in 1..CONCURRENCY : GsThrow(k)
  \/ \E k \in 1..CONCURRENCY : GsGetMetadata(k)
  \/ \E k \in 1..CONCURRENCY : GsSetMetadata(k)
  \/ \E k \in 1..CONCURRENCY : DocUpdate(k)
  \/ \E k \in 1..CONCURRENCY : DocUpdateThrow(k)
  \/ ChunkSettled
  \/ MigrateSummary

SpecMigrate == InitMigrate /\ [][NextMigrate]_vars

\* the utility is started once more on what its last run left
MigrateAgain ==
  /\ migPc = "done"
  /\ migPc' = "idle"
  /\ limitCount' = 0
  /\ stats' = NoStats
  /\ hasMore' = FALSE
  /\ lastDoc' = NoId
  /\ docs' = <<>>
  /\ chunkI' = 0
  /\ inflight' = <<>>
  /\ UNCHANGED <<fileTokens, throws>>
  /\ UNCHANGED <<catalog, importVars>>

\* live runs with credentials over a catalog of less than a page
InitMigrateAgain ==
  /\ InitMigrate
  /\ ~dryRun
  /\ credsOk
  /\ Cardinality(DOMAIN catalog) < PAGE_SIZE

NextMigrateAgain ==
  \/ \E env \in {"", "1"} : MigrateStart(env)
  \/ QueryPage
  \/ QueryThrow
  \/ WhileExit
  \/ StartChunk
  \/ ForExit
  \/ \E k \in 1..CONCURRENCY : GsExists(k)
  \/ \E k \in 1..CONCURRENCY : GsThrow(k)
  \/ \E k \in 1..CONCURRENCY : GsGetMetadata(k)
  \/ \E k \in 1..CONCURRENCY : GsSetMetadata(k)
  \/ \E k \in 1..CONCURRENCY : DocUpdate(k)
  \/ \E k \in 1..CONCURRENCY : DocUpdateThrow(k)
  \/ ChunkSettled
  \/ MigrateSummary
  \/ MigrateAgain

SpecMigrateAgain == InitMigrateAgain /\ [][NextMigrateAgain]_vars

(* ======================= properties ======================= *)
Phases == {"audio", "artwork"}
RefOf(t, ph) == IF ph = "audio" THEN t.audioUrl ELSE t.artwork
AfterDedup == {"MigrateAssets", "Write", "Summarize", "Done"}

\* C1: in a live run, once the existence check has returned, no record of
\* newTracks has an id that is in the catalog, however many 100-id chunks
\* the candidate list spans.
C1_DedupComplete ==
  (pc = "MigrateAssets" /\ ~dryRun) =>
    \A k \in 1..Len(newTracks) : newTracks[k].id \notin DOMAIN catalog

\* a live run whose candidates span two chunks, with a catalogued id in the
\* second chunk
C1_Witness ==
  /\ pc = "MigrateAssets" /\ ~dryRun
  /\ Len(allTracks) > CHUNK
  /\ \E k \in CHUNK + 1..Len(allTracks) : allTracks[k].id \in DOMAIN catalog
  /\ \E k \in 1..CHUNK : allTracks[k].id \in DOMAIN catalog

\* every valid candidate of the run was classified as a duplicate
AllDuplicates ==
  /\ newTracks = <<>>
  /\ \A k \in 1..Len(allTracks) : allTracks[k].id \in existingIds
  /\ \A a \in Adapters : allStats[a].newTracks = 0

\* C2 as stated: after a live run that committed every chunk, a second run
\* whose adapters return no new candidate id finds no new record.
C2_AnySecondRun ==
  (pc \in AfterDedup /\ prevLive /\ candIds \subseteq prevIds) => AllDuplicates

\* C2 amended: the same, for a second run that is not a dry run.
C2_Idempotent ==
  (pc \in AfterDedup /\ prevLive /\ candIds \subseteq prevIds /\ ~dryRun)
    => AllDuplicates

C2_Witness ==
  /\ pc = "Done" /\ prevLive /\ ~dryRun
  /\ candIds \subseteq prevIds
  /\ Len(allTracks) > 1
  /\ AllDuplicates

\* C3: a reference whose every attempt failed leaves its record in the list
\* uploadAllTrackAssets returns, in the list handed to the batch writer and
\* in the written catalog, with the reference equal to the original URL.
KeptWithOriginal(before, after) ==
  \A k \in 1..Len(before), ph \in Phases :
    <<before[k].id, ph>> \in exhausted =>
      /\ k <= Len(after)
      /\ after[k].id = before[k].id
      /\ RefOf(after[k], ph) = RefOf(before[k], ph)

C3_FallbackKeepsRecord ==
  /\ upCall = "returned" => KeptWithOriginal(upTracks, upResult)
  /\ pc \in {"Write", "Summarize", "Done"} => KeptWithOriginal(newTracks, tracksToWrite)
  /\ pc \in {"Summarize", "Done"} =>
       \A k \in 1..Len(newTracks), ph \in Phases :
         <<newTracks[k].id, ph>> \in exhausted =>
           /\ newTracks[k].id \in DOMAIN catalog
           /\ RefOf(catalog[newTracks[k].id].track, ph) = RefOf(newTracks[k], ph)

\* a finished run in which an audio and an artwork reference both fell back
C3_Witness ==
  /\ pc = "Done"
  /\ \E e \in exhausted : e[2] = "audio"
  /\ \E e \in exhausted : e[2] = "artwork"

\* the reference ph of p has been through downloadAndUpload
Relocated(p, ph) ==
  /\ p.tries[ph] > 0
  /\ \/ p.phase = "done"
     \/ ph = "audio" /\ p.phase = "artwork"

\* C4: at most MAX_RETRIES + 1 attempts per reference; the outcome is the
\* gs:// path or, only after the last attempt, the original URL; no attempt
\* follows a success; and every call returns.
C4_Bounds ==
  \A k \in DOMAIN proc, ph \in Phases :
    /\ proc[k].tries[ph] <= MAX_RETRIES + 1
    /\ Relocated(proc[k], ph) =>
         \/ RefOf(proc[k], ph) = GsRef(StoragePath(proc[k].track.id, ph))
         \/ /\ RefOf(proc[k], ph) = RefOf(proc[k].track, ph)
            /\ proc[k].tries[ph] = MAX_RETRIES + 1

C4_NoAttemptAfterEnd ==
  (DOMAIN proc' = DOMAIN proc /\ upI' = upI) =>
    \A k \in DOMAIN proc, ph \in Phases :
      Relocated(proc[k], ph) =>
        /\ proc'[k].tries[ph] = proc[k].tries[ph]
        /\ RefOf(proc'[k], ph) = RefOf(proc[k], ph)

C4_RetryBounded ==
  /\ []C4_Bounds
  /\ [][C4_NoAttemptAfterEnd]_vars
  /\ (upCall = "called") ~> (upCall = "returned")

\* a record whose audio was stored on the third attempt and whose artwork
\* fell back after three attempts
C4_Witness ==
  \E k \in DOMAIN proc :
    /\ proc[k].phase = "done"
    /\ proc[k].tries["audio"] = MAX_RETRIES + 1
    /\ proc[k].audioUrl.scheme = "gs"
    /\ proc[k].tries["artwork"] = MAX_RETRIES + 1
    /\ proc[k].artwork = proc[k].track.artwork

WindowNo(i) == (i - 1) \div CONCURRENCY

\* C5: at most CONCURRENCY records are in processing, and a record is in
\* processing only if every record of the earlier windows had returned.
C5_BoundedWindows ==
  /\ Cardinality({k \in DOMAIN proc : proc[k].phase # "done"}) <= CONCURRENCY
  /\ \A k \in DOMAIN proc, i \in 1..Len(upTracks) :
       WindowNo(i) < WindowNo(upI + k) => i \in completed

\* the second window is in processing
C5_Witness ==
  /\ upI = CONCURRENCY
  /\ proc # <<>>
  /\ proc[1].phase # "done"
  /\ completed = 1..CONCURRENCY

\* C6: a run ends without its summary only by the configuration error that
\* precedes FetchAll.
C6_FailureContained ==
  pc = "Fatal" => \A a \in Adapters : settled[a].status = "pending"

StageRank(stage) ==
  CASE stage = "Init" -> 0
    [] stage = "FetchAll" -> 1
    [] stage = "Validate" -> 2
    [] stage = "Dedup" -> 3
    [] stage = "MigrateAssets" -> 4
    [] stage = "Write" -> 5
    [] stage = "Summarize" -> 6
    [] stage = "Done" -> 7
    [] OTHER -> 8

\* C7: within a run the stage only moves to the next stage of the list (or
\* the run ends), and a step that changes the catalog happens in Write and
\* writes only records that are valid, came out of dedup as new and are the
\* output of the finished asset migration.
C7_StageStep ==
  pc' # pc =>
    \/ StageRank(pc') = StageRank(pc) + 1
    \/ pc' = "Fatal"
    \/ pc \in {"Done", "Fatal"} /\ pc' = "Init" /\ run' = run + 1

C7_CommitStep ==
  catalog' # catalog =>
    /\ pc = "Write" /\ pc' = "Write"
    /\ upCall = "idle" /\ proc = <<>>
    /\ \A id \in DOMAIN catalog' :
         (id \notin DOMAIN catalog \/ catalog'[id] # catalog[id]) =>
           /\ validateTrack(catalog'[id].track)
           /\ id \notin existingIds
           /\ id \in Range(IdsOf(newTracks))
           /\ catalog'[id].track \in Range(upResult)

C7_StageOrder == [][C7_StageStep /\ C7_CommitStep]_vars

\* a live run that committed records and finished
C7_Witness ==
  /\ pc = "Done" /\ ~dryRun
  /\ tracksToWrite # <<>>
  /\ \A k \in 1..Len(tracksToWrite) : tracksToWrite[k].id \in DOMAIN catalog

\* C8: main goes on only when every adapter has settled; the valid records
\* of every fulfilled adapter are in allTracks and, in a finished live run,
\* in the catalog, whatever the other adapters did; a rejected adapter adds
\* one stats entry with one error and nothing else.
C8_AdapterIndependence ==
  /\ StageRank(pc) \in 2..7 => \A a \in Adapters : settled[a].status # "pending"
  /\ pc \in AfterDedup =>
       \A a \in Adapters :
         /\ settled[a].status = "fulfilled" =>
              LET kept == Range(allTracks)
                  stored == DOMAIN catalog
              IN \A t \in Range(settled[a].tracks) :
                   validateTrack(t) =>
                     /\ t \in kept
                     /\ (pc = "Done" /\ ~dryRun) => t.id \in stored
         /\ settled[a].status = "rejected" =>
              /\ allStats[a].errors = 1
              /\ allStats[a].fetched = 0
              /\ allStats[a].newTracks = 0
              /\ allStats[a].skippedDuplicates = 0

\* a finished live run in which one adapter rejected and the other's records
\* were written
C8_Witness ==
  /\ pc = "Done" /\ ~dryRun /\ run = 1
  /\ settled[2].status = "rejected"
  /\ settled[1].status = "fulfilled"
  /\ Len(newTracks) > 1
  /\ \A k \in 1..Len(newTracks) : newTracks[k].id \in DOMAIN catalog

RECURSIVE Uniq(_)
Uniq(q) ==
  IF q = <<>> THEN <<>>
  ELSE LET r == Uniq(SubSeq(q, 1, Len(q) - 1))
       IN IF q[Len(q)] \in Range(r) THEN r ELSE Append(r, q[Len(q)])

C9_PerRun == IF prov = "bandcamp" THEN 3 ELSE 2

\* C9: a call that went through its partition loop from rotation index i
\* issued page requests for exactly the partitions (i + j) mod P, j = 0..N-1,
\* in that order (one request each, except Bandcamp's pages of a genre), with
\* i the index of the progress document when the call read one; a call with a
\* database handle hands (i + N) mod P to the progress write, and the document
\* holds it once the write is acknowledged, whatever the partition requests did.
C9_Rotation ==
  /\ (apc \in {"loop", "sleep", "save"} /\ loadStatus = "ok" /\ stateDoc.exists)
       => st.idx = stateDoc.idx
  /\ (apc = "return" /\ reqLog # <<>>) =>
       LET P == Len(PartitionsOf(prov))
           i == st.idx
           selected == Uniq([k \in 1..Len(reqLog) |-> reqLog[k].part])
       IN /\ selected = [m \in 1..C9_PerRun |-> (i + (m - 1)) % P]
          /\ prov # "bandcamp" => Len(reqLog) = C9_PerRun
          /\ hasDb => /\ newState.exists
                      /\ newState.idx = (i + C9_PerRun) % P
                      /\ saveStatus = "ok" => stateDoc.idx = (i + C9_PerRun) % P

C9_Witness ==
  /\ apc = "return"
  /\ saveStatus = "ok"
  /\ aErrors > 0
  /\ st.idx > 0
  /\ st.idx + C9_PerRun > Len(PartitionsOf(prov))
  /\ stateDoc.idx = (st.idx + C9_PerRun) % Len(PartitionsOf(prov))

AllPartitions == 0..(Len(PartitionsOf(prov)) - 1)

ChunkNo(k) == ((k - 1) \div 500) + 1

\* the catalog holds the k-th input record as written by commit number c
WrittenBy(k, c) ==
  /\ tracksToWrite[k].id \in DOMAIN catalog
  /\ catalog[tracksToWrite[k].id] = [track |-> tracksToWrite[k], addedAt |-> c]

\* the k-th input record has not been written by this call
NotWritten(k) ==
  tracksToWrite[k].id \in DOMAIN catalog => catalog[tracksToWrite[k].id].addedAt = 0

\* C11: while batchWriteTracks runs, the records committed so far are exactly
\* the first writeI records, writeI a multiple of 500, and the k-th record was
\* written by commit number ceil(k / 500) and by no other commit (the commits
\* are numbered by the store's clock, so chunk j+1 is written after chunk j);
\* once the call has returned every input record has been written so.
C11_Chunking ==
  (pc \in {"Write", "Summarize", "Done"} /\ tracksToWrite # <<>>) =>
    /\ writeI % 500 = 0
    /\ clock = writeI \div 500
    /\ \A k \in 1..Len(tracksToWrite) :
         IF k <= writeI THEN WrittenBy(k, ChunkNo(k)) ELSE NotWritten(k)
    /\ pc \in {"Summarize", "Done"} => writeI >= Len(tracksToWrite)

C11_Witness ==
  /\ pc = "Done"
  /\ Len(tracksToWrite) = 1001
  /\ clock = 3
  /\ WrittenBy(500, 1) /\ WrittenBy(501, 2) /\ WrittenBy(1001, 3)

\* C12: when the commit of a chunk is rejected, the records of the chunks
\* before it are in the catalog as those commits wrote them, no record of the
\* rejected chunk or of a later one has been written, and the rejection has
\* left batchWriteTracks and main (the run ends with exit status 1, no
\* further chunk is submitted).
C12_NoRollback ==
  (pc = "Fatal" /\ tracksToWrite # <<>>) =>
    /\ writeI < Len(tracksToWrite)
    /\ \A k \in 1..Len(tracksToWrite) :
         IF k <= writeI THEN WrittenBy(k, ChunkNo(k)) ELSE NotWritten(k)
    /\ exitCode = 1
    /\ summary = <<>>

C12_Witness ==
  /\ pc = "Fatal"
  /\ Len(tracksToWrite) = 1001
  /\ writeI = 500
  /\ WrittenBy(1, 1) /\ WrittenBy(500, 1)
  /\ NotWritten(501) /\ NotWritten(1001)
  /\ tracksToWrite[501].id \in DOMAIN catalog

\* neither reference of the record is an external URL
NothingToMigrate(t) == t.audioUrl.scheme # "http" /\ t.artwork.scheme # "http"

\* C13: a record neither of whose references is an external URL (each is
\* empty or a gs:// reference) has returned from processTrack as soon as it
\* was called, without a download or upload attempt, and comes back from
\* uploadAllTrackAssets equal to the record that went in; nothing is stored
\* in the bucket for it.
C13_PassThrough ==
  /\ \A k \in DOMAIN proc :
       NothingToMigrate(proc[k].track) =>
         /\ proc[k].phase = "done"
         /\ proc[k].tries = [audio |-> 0, artwork |-> 0]
         /\ TrackOut(proc[k]) = proc[k].track
  /\ \A k \in 1..Len(upTracks) :
       NothingToMigrate(upTracks[k]) =>
         /\ \A f \in bucketFiles : f.owner # upTracks[k].id
         /\ k <= Len(results) => results[k] = upTracks[k]
         /\ upCall = "returned" => upResult[k] = upTracks[k]

\* a returned call whose list held an already relocated record, a record
\* with no reference at all and one whose audio was stored in the bucket
C13_Witness ==
  /\ upCall = "returned"
  /\ \E k \in 1..Len(upTracks) :
       upTracks[k].audioUrl.scheme = "gs" /\ upTracks[k].artwork.scheme = "gs"
         /\ upResult[k] = upTracks[k]
  /\ \E k \in 1..Len(upTracks) :
       upTracks[k].audioUrl.scheme = "gs" /\ upTracks[k].artwork.scheme = ""
         /\ upResult[k] = upTracks[k]
  /\ \E k \in 1..Len(upTracks) :
       upTracks[k].audioUrl.scheme = "http" /\ upResult[k].audioUrl.scheme = "gs"
  /\ bucketFiles # {}

\* C14: no step of a dry run changes the catalog, the bucket or the
\* provider's progress document, and the adapter a dry run calls neither
\* reads nor writes its progress document, whatever the adapters return.
C14_Step ==
  dryRun =>
    /\ catalog' = catalog
    /\ bucketFiles' = bucketFiles
    /\ stateDoc' = stateDoc
    /\ apc' \notin {"load", "save"}
    /\ upCall' = "idle"

C14_DryRunWritesNothing == [][C14_Step]_vars

\* a finished dry first run whose adapters returned records with external
\* references, one of them the adapter that went through its partitions
C14_Witness ==
  /\ dryRun /\ run = 1 /\ pc = "Done"
  /\ reqLog # <<>>
  /\ settled[Stepped].status = "fulfilled" /\ settled[Stepped].tracks # <<>>
  /\ \E k \in 1..Len(newTracks) :
       newTracks[k].id.prefix = "jamendo" /\ newTracks[k].audioUrl.scheme = "http"
  /\ \E k \in 1..Len(newTracks) :
       newTracks[k].id.prefix = "ccmixter" /\ newTracks[k].audioUrl.scheme = "http"
  /\ tracksToWrite = newTracks
  /\ catalog = EmptyCatalog /\ bucketFiles = {} /\ stateDoc = NoDoc

\* the run has no usable credentials and is not a dry run
Misconfigured == ~dryRun /\ ~credsOk

\* C15: a run that is not a dry run and has no usable credentials goes from
\* Init straight to the fatal exit: it never reaches FetchAll, no adapter is
\* launched or settles, the catalog and the bucket stay as they were, and
\* the exit status is 1.
C15_State ==
  Misconfigured =>
    /\ pc \in {"Init", "Fatal"}
    /\ settled = NoSettlement
    /\ apc = "idle"
    /\ ~db /\ ~bucket
    /\ pc = "Fatal" => exitCode = 1
    /\ pc = "Init" => ENABLED InitServices

C15_Step ==
  (Misconfigured /\ run' = run) =>
    /\ pc' = "Fatal"
    /\ catalog' = catalog
    /\ bucketFiles' = bucketFiles
    /\ stateDoc' = stateDoc

C15_FatalConfig == []C15_State /\ [][C15_Step]_vars

\* a misconfigured run has ended fatally after a live run filled the catalog
C15_Witness ==
  /\ Misconfigured
  /\ pc = "Fatal" /\ exitCode = 1
  /\ run = 2
  /\ DOMAIN catalog # {}

\* the record breaks a validation rule: no id, no title, no artist, or a
\* negative duration
FailsValidation(t) ==
  t.id = NoId \/ t.title = "" \/ t.artist = "" \/ t.duration < 0

Fetched == UNION {Range(settled[a].tracks) : a \in Adapters}

\* C16: once the results have been looped over, a fetched record that fails
\* validation is not in allTracks, so its id is not in the id list handed to
\* batchCheckExisting, and it is never in newTracks, in tracksToWrite or in
\* the catalog; a fetched record with duration 0 that breaks no rule is in
\* allTracks and, when the live run finishes, in the catalog.
C16_ValidationFirst ==
  /\ \A id \in DOMAIN catalog : ~FailsValidation(catalog[id].track)
  /\ StageRank(pc) \in 3..7 =>
       LET kept == Range(allTracks)
           asked == Range(IdsOf(allTracks))
           onward == Range(newTracks) \cup Range(tracksToWrite)
           stored == DOMAIN catalog
       IN \A t \in Fetched :
            /\ FailsValidation(t) =>
                 /\ t.id \notin asked
                 /\ t.id \notin existingIds
                 /\ t \notin onward
                 /\ t.id \notin stored
            /\ (t.duration = 0 /\ ~FailsValidation(t)) =>
                 /\ t \in kept
                 /\ (pc = "Done" /\ ~dryRun) => t.id \in stored

\* a finished live run that fetched a record without title, and a record of
\* duration 0 that it wrote
C16_Witness ==
  /\ pc = "Done" /\ ~dryRun
  /\ \E t \in Fetched : t.title = "" /\ t.id \notin DOMAIN catalog
  /\ \E t \in Fetched :
       /\ t.duration = 0 /\ ~FailsValidation(t)
       /\ t.id \in DOMAIN catalog
       /\ catalog[t.id].track.duration = 0
       /\ catalog[t.id].addedAt = clock

RECURSIVE SumGot(_)
SumGot(log) == IF log = <<>> THEN 0 ELSE log[1].got + SumGot(Tail(log))

\* the valid records the stepped adapter returned
ValidReturned == {t \in Range(settled[Stepped].tracks) : ~FailsValidation(t)}

\* C17: when dedup has returned, the stats entry of an adapter has fetched
\* equal to the number of raw items the adapter received in its page
\* responses (items it skipped for a missing mandatory field included), new
\* equal to the number of its valid records absent from the catalog, and
\* duplicate equal to the number of its valid records present in the catalog.
C17_SummaryCounters ==
  (pc = "MigrateAssets" /\ settled[Stepped].status = "fulfilled") =>
    /\ allStats[Stepped].fetched = SumGot(reqLog)
    /\ allStats[Stepped].newTracks =
         Cardinality({t \in ValidReturned : t.id \notin DOMAIN catalog})
    /\ allStats[Stepped].skippedDuplicates =
         Cardinality({t \in ValidReturned : t.id \in DOMAIN catalog})

\* every provider prefix of the importer
AllPrefixes == Providers \cup Range(Sources)

\* native ids as providers send them: numbers, UUID-like texts with dashes,
\* a text that starts like another provider's id, the empty text
NativeTexts == {"500", "7", "a-b", "bandcamp-500", "-", ""}

\* ids of different providers differ whatever the native ids, and a provider's
\* ids differ for different native ids
PrefixUnique ==
  \A p1 \in AllPrefixes, p2 \in AllPrefixes :
    \A n1 \in NativeTexts, n2 \in NativeTexts :
      /\ (p1 # p2) => BuildId(p1, n1) # BuildId(p2, n2)
      /\ (n1 # n2) => BuildId(p1, n1) # BuildId(p1, n2)

\* the records a step of the adapter adds to tracks
Built == {aTracks'[k] : k \in (Len(aTracks) + 1)..Len(aTracks')}

C18_Step ==
  /\ PrefixUnique
  /\ \A n \in Built :
       LET text == IdText(Track(prov, n).id)
           native == ToString(n)
       IN /\ text = BuildId(prov, native)
          /\ \A q \in AllPrefixes \ {prov} : text # BuildId(q, native)

\* C18: the id an adapter builds for a record is BuildId(provider, native id),
\* whatever the run, the partition and the offset it was fetched at, and it
\* differs from every id another provider builds, for the same native id and
\* for any other one.
C18_IdStability == [][C18_Step]_vars

\* a later run of an adapter has built ids, and another provider's adapter
\* builds records with the same native ids
C18_Witness ==
  /\ runsDone >= 1 /\ Len(aTracks) > 0
  /\ \E q \in Providers \ {prov} : AdapterKind(q) = AdapterKind(prov)

TokenlessCall == prov = "discogs" /\ ~hasToken /\ apc # "idle"

C19_State ==
  TokenlessCall =>
    /\ apc = "return"
    /\ aTracks = <<>>
    /\ aErrors = 1
    /\ reqLog = <<>>
    /\ loadStatus = "none"
    /\ saveStatus = "none"

C19_Step ==
  (TokenlessCall \/ TokenlessCall') =>
    /\ stateDoc' = stateDoc
    /\ faults' = faults
    /\ TokenlessCall => (apc' = "idle" /\ aTracks' = <<>> /\ aErrors' = 1)

\* C19: a call of fetchDiscogs without a token goes straight to its return
\* with no records and exactly one error; it issues no request, reads no
\* progress document and writes none (the document stays as it was), and the
\* call ends by returning that result.
C19_MissingToken == []C19_State /\ [][C19_Step]_vars

\* the token is missing in a call made with a database whose progress document
\* earlier runs have written
C19_Witness ==
  /\ TokenlessCall
  /\ hasDb
  /\ stateDoc.exists
  /\ runsDone >= 1

\* C20: with a record cap L >= 1 configured, the utility never has more than L
\* records scanned (counted in stats.total), whatever the catalog holds.
C20_RecordCap ==
  (migPc \notin {"idle", "fatal"} /\ limitCount >= 1) => stats.total <= limitCount

\* C21: every document of the catalog is stored under the id of the record it
\* holds, so a candidate accepted as new twice (re-accepted by the run after a
\* failed or dry run, or written by two overlapping runs) has exactly one
\* document, the one written last.
C21_OneRecordPerId ==
  /\ \A id \in DOMAIN catalog : catalog[id].track.id = id
  /\ (pc = "Done" /\ ~dryRun) =>
       \A k \in 1..Len(newTracks) : newTracks[k].id \in DOMAIN catalog

\* an overlapping run committed a candidate after this run's dedup had accepted
\* it as new, and this run's write then set the same document again
C21_Witness ==
  /\ pc = "Done" /\ ~dryRun /\ run = 1
  /\ clock = 2
  /\ \E k \in 1..Len(newTracks) :
       /\ newTracks[k].id \notin existingIds
       /\ catalog[newTracks[k].id].addedAt = clock

\* a run whose commit was rejected is followed by a run that accepts the same
\* candidates as new again and writes them
C21_WitnessRetry ==
  /\ pc = "Done" /\ ~dryRun /\ run = 2 /\ ~prevLive
  /\ newTracks # <<>>
  /\ \A k \in 1..Len(newTracks) : newTracks[k].id \in prevIds

\* C22: in one adapter call the adapter has slept after every page request
\* that another page request follows, whatever the first one's outcome (the
\* requests themselves are issued one at a time, each one awaited).
C22_SleepBetweenRequests ==
  \A k \in 1..(Len(reqLog) - 1) : reqLog[k].slept

\* the progress the call works from: the document read at its start, or the
\* default when there is no db, no document or the read failed
LoadedDoc == IF loadStatus = "ok" /\ stateDoc.exists THEN stateDoc ELSE NoDoc

StoredOffset(name) ==
  IF name \in DOMAIN LoadedDoc.offsets THEN LoadedDoc.offsets[name] ELSE 0

\* the call is between its progress read and its progress write
InRequests == apc \in {"loop", "sleep", "save"}

OnePagePerPartition ==
  InRequests =>
    /\ \A k \in 1..Len(reqLog) :
         /\ reqLog[k].part = (LoadedDoc.idx + k - 1) % PartitionCount
         /\ reqLog[k].offset = StoredOffset(PartitionsOf(prov)[reqLog[k].part + 1])
    /\ apc = "save" => Len(reqLog) = PerRun(prov)

\* C23 as stated: every adapter, Bandcamp included, issues exactly one page
\* request for each partition it selects, at the offset stored for that
\* partition in the progress it loaded (0 if none).
C23_EveryAdapter == OnePagePerPartition

\* C23 amended: the same for ccMixter, MusicBrainz and Discogs; Bandcamp stores
\* no offsets and requests up to PAGES_PER_GENRE pages of each genre, from
\* offset 0 in steps of its page size.
C23_OnePagePerPartition ==
  /\ prov # "bandcamp" => OnePagePerPartition
  /\ (prov = "bandcamp" /\ InRequests) =>
       /\ \A k \in 1..Len(reqLog) :
            /\ reqLog[k].part \in {(LoadedDoc.idx + g) % PartitionCount : g \in 0..(PerRun(prov) - 1)}
            /\ reqLog[k].offset \in {n * PageSize(prov) : n \in 0..(PAGES_PER_GENRE - 1)}
            /\ reqLog[k].offset > 0 =>
                 /\ k > 1
                 /\ reqLog[k - 1].part = reqLog[k].part
                 /\ reqLog[k - 1].offset = reqLog[k].offset - PageSize(prov)
       /\ Len(reqLog) <= PerRun(prov) * PAGES_PER_GENRE

\* a call that has issued all its requests, one of them at a stored offset
\* above 0
C23_Witness ==
  /\ apc = "save" /\ prov # "bandcamp"
  /\ Len(reqLog) = PerRun(prov)
  /\ \E k \in 1..Len(reqLog) : reqLog[k].offset > 0

\* the offset a progress document holds for a partition (none counts as 0)
SavedOffset(doc, part) ==
  LET name == PartitionsOf(prov)[part + 1]
  IN IF name \in DOMAIN doc.offsets THEN doc.offsets[name] ELSE 0

Failed(log) == {k \in 1..Len(log) : log[k].outcome \in {"http", "throw"}}

\* C24: a partition whose page request of this call came back empty has offset
\* 0 in the progress the call hands to its write and in the progress document
\* once the write succeeded, and the empty page adds no error: the errors of
\* the call are its failed requests.
C24_EmptyPageResets ==
  (apc \in {"loop", "sleep", "save", "return"} /\ ~TokenlessCall) =>
    /\ aErrors = Cardinality(Failed(reqLog))
    /\ \A k \in 1..Len(reqLog) :
         reqLog[k].outcome = "empty" =>
           /\ SavedOffset(st, reqLog[k].part) = 0
           /\ newState.exists => SavedOffset(newState, reqLog[k].part) = 0
           /\ (apc = "return" /\ saveStatus = "ok") =>
                SavedOffset(stateDoc, reqLog[k].part) = 0

\* a partition whose stored offset had run past the provider's last page got
\* an empty page, and the progress was saved
C24_Witness ==
  /\ apc = "return" /\ saveStatus = "ok" /\ prov # "bandcamp"
  /\ \E k \in 1..Len(reqLog) : reqLog[k].outcome = "empty" /\ reqLog[k].offset > 0

\* the partitions the rotation selects for this call
Selected == {PartitionAt(st.idx, g, PartitionCount) : g \in 0..(PerRun(prov) - 1)}

\* a request of the call has just failed (non-OK status or a throw)
FailedRequest ==
  /\ Len(reqLog') = Len(reqLog) + 1
  /\ reqLog'[Len(reqLog')].outcome \in {"http", "throw"}

C25_Step ==
  FailedRequest => /\ aErrors' = aErrors + 1
                   /\ SubSeq(aTracks', 1, Len(aTracks)) = aTracks
                   /\ apc' = "loop"

C25_State ==
  (apc = "return" /\ ~TokenlessCall) =>
    LET got == Range(aTracks)
    IN /\ {reqLog[k].part : k \in 1..Len(reqLog)} = Selected
       /\ \A k \in 1..Len(reqLog) :
            reqLog[k].outcome = "page" =>
              LET items == PageItems(reqLog[k].part, reqLog[k].offset)
              IN \A i \in 1..Len(items) : items[i] \in got

\* C25: a request that returns a non-OK status or throws adds exactly one error,
\* keeps the records gathered so far and leaves the call in its partition loop;
\* when the loop is over every selected partition has been requested, and the
\* result holds the records of every page that was received.
C25_PartialFailure == []C25_State /\ [][C25_Step]_vars

\* the first selected partition failed, a later one delivered records, and the
\* call is about to return them with the one error
C25_Witness ==
  /\ apc = "return" /\ ~TokenlessCall
  /\ aErrors = 1 /\ aTracks # <<>>
  /\ reqLog[1].outcome \in {"http", "throw"}
  /\ \E k \in 2..Len(reqLog) : reqLog[k].outcome = "page" /\ reqLog[k].part # reqLog[1].part

\* C26 as stated: in a dry run, once the dedup stage is over, no record of
\* newTracks has an id that is in the catalog.
C26_DryRunDedups ==
  (pc \in AfterDedup /\ dryRun) =>
    \A k \in 1..Len(newTracks) : newTracks[k].id \notin DOMAIN catalog

\* C26 amended: a dry run has no database handle and makes no lookup: once
\* its dedup stage is over the set of existing ids is empty and newTracks is
\* the list of valid candidates, whether or not the catalog holds their ids;
\* a run with a database handle excludes every catalogued candidate id.
C26_DryRunNoLookup ==
  pc \in AfterDedup =>
    /\ dryRun => /\ ~db
                 /\ existingIds = {}
                 /\ newTracks = allTracks
                 /\ \A a \in Adapters : allStats[a].skippedDuplicates = 0
    /\ (db /\ pc = "MigrateAssets") =>
         existingIds = {allTracks[k].id : k \in 1..Len(allTracks)} \cap DOMAIN catalog

\* a dry run that follows a live run and reports as new a record the catalog
\* already holds
C26_Witness ==
  /\ pc = "Done" /\ dryRun /\ run = 2 /\ prevLive
  /\ \E k \in 1..Len(newTracks) : newTracks[k].id \in DOMAIN catalog

\* the call runs on the default progress: the read threw, or it returned a
\* document that does not exist
Defaulted == loadStatus = "failed" \/ (loadStatus = "ok" /\ ~stateDoc.exists)

\* the load has just ended without a document
LoadedNothing ==
  /\ apc = "load" /\ apc' # "load"
  /\ loadStatus' = "failed" \/ ~stateDoc.exists

C27_Step == LoadedNothing => st' = DefaultState /\ aErrors' = aErrors /\ apc' = "loop"

C27_State ==
  (Defaulted /\ apc \in {"loop", "sleep", "save", "return"} /\ ~TokenlessCall) =>
    /\ st.idx = 0
    /\ aErrors = Cardinality(Failed(reqLog))
    /\ \A k \in 1..Len(reqLog) :
         /\ reqLog[k].part \in {PartitionAt(0, g, PartitionCount) : g \in 0..(PerRun(prov) - 1)}
         /\ prov # "bandcamp" => /\ reqLog[k].part = PartitionAt(0, k - 1, PartitionCount)
                                 /\ reqLog[k].offset = 0
    /\ apc \in {"save", "return"} => Len(reqLog) >= PerRun(prov)

\* C27: when the read of the progress document throws or finds no document,
\* the call goes on with rotation index 0 and no offsets, its errors are only
\* its failed requests, and it requests the first partitions of the rotation
\* from offset 0.
C27_LoadFailure == []C27_State /\ [][C27_Step]_vars

\* the read threw, and the call made its requests, saved its progress and is
\* about to return records without an error
C27_Witness ==
  /\ apc = "return" /\ loadStatus = "failed" /\ aErrors = 0
  /\ stateDoc.exists /\ saveStatus = "ok"
  /\ Len(reqLog) >= PerRun(prov) /\ aTracks # <<>>

\* no progress document is stored yet
C27_WitnessMissing ==
  /\ apc = "save" /\ loadStatus = "ok" /\ ~stateDoc.exists /\ Len(reqLog) = PerRun(prov)

\* the write of the progress document has just thrown
SaveThrew == apc = "save" /\ saveStatus' = "failed"

\* the adapter whose write threw has just settled
SettledUnsaved ==
  /\ saveStatus = "failed"
  /\ settled[Stepped].status = "pending"
  /\ settled'[Stepped].status # "pending"

C28_Step ==
  /\ SaveThrew => /\ stateDoc' = stateDoc
                  /\ aTracks' = aTracks /\ aErrors' = aErrors
                  /\ apc' = "return"
  /\ SettledUnsaved => /\ settled'[Stepped].status = "fulfilled"
                       /\ settled'[Stepped].tracks = TracksOf(prov, aTracks)
                       /\ Len(settled'[Stepped].errors) = aErrors
                       /\ pc' = "FetchAll"
  /\ \A id \in DOMAIN catalog : id \in DOMAIN catalog' /\ catalog'[id] = catalog[id]

C28_State ==
  (db /\ pc = "MigrateAssets") =>
    \A k \in 1..Len(newTracks) : newTracks[k].id \notin DOMAIN catalog

\* C28: a throwing write of the progress document leaves the stored document,
\* the records and the errors of the call as they are and the adapter fulfils
\* with them; in the runs that follow, the dedup stage keeps every catalogued
\* id out of newTracks and no record of the catalog is written again.
C28_SaveFailure == []C28_State /\ [][C28_Step]_vars

\* the second of two live runs found no progress document, because the write
\* of the first run threw, fetched the same page again and found every record
\* of it in the catalog
C28_Witness ==
  /\ pc = "Done" /\ run = 2 /\ prevLive
  /\ apc = "idle" /\ loadStatus = "ok" /\ st.idx = 0
  /\ allTracks # <<>> /\ newTracks = <<>>
  /\ \A k \in 1..Len(allTracks) : allTracks[k].id \in DOMAIN catalog

Gets == {k \in 1..Len(docOps) : docOps[k].op = "get"}
Sets == {k \in 1..Len(docOps) : docOps[k].op = "set"}

\* the progress documents of the other providers
OtherDocs == {"import-state/" \o q : q \in Providers \ {prov}}

\* C29: in one adapter call the progress document is read at most once, with
\* no request made before, and written at most once, with no request made
\* after; every read and write names the document of the called provider.
C29_DocDiscipline ==
  /\ Cardinality(Gets) <= 1
  /\ Cardinality(Sets) <= 1
  /\ \A k \in Gets : k = 1 /\ docOps[k].at = 0
  /\ \A k \in Sets : /\ k = Len(docOps)
                     /\ docOps[k].at = Len(reqLog)
                     /\ apc \in {"return", "idle"}
  /\ \A k \in 1..Len(docOps) : /\ docOps[k].path = "import-state/" \o prov
                               /\ docOps[k].path \notin OtherDocs

\* a call that read the document, made its requests and wrote the document
C29_Witness ==
  /\ apc = "return"
  /\ Len(docOps) = 2 /\ docOps[1].op = "get" /\ docOps[2].op = "set"
  /\ Len(reqLog) >= PerRun(prov) /\ docOps[2].at = Len(reqLog)

\* the attempts made so far on the reference a processTrack call is relocating
AttemptsOf(p) == p.tries[p.phase]

C30_State ==
  \A k \in DOMAIN proc :
    IF proc[k].step = "sleep"
    THEN /\ AttemptsOf(proc[k]) \in 1..MAX_RETRIES
         /\ proc[k].sleepMs = AttemptsOf(proc[k]) * RETRY_DELAY_MS
         /\ AttemptsOf(proc[k]) = 1 => proc[k].sleepMs = 2000
         /\ AttemptsOf(proc[k]) = 2 => proc[k].sleepMs = 4000
    ELSE proc[k].sleepMs = 0

\* whatever follows the last attempt on a reference, it is not a sleep
C30_Step ==
  (DOMAIN proc' = DOMAIN proc /\ upI' = upI) =>
    \A k \in DOMAIN proc :
      (/\ proc[k].step \in {"download", "upload"}
       /\ AttemptsOf(proc[k]) = MAX_RETRIES + 1
       /\ proc'[k] # proc[k])
        => proc'[k].step # "sleep" /\ proc'[k].sleepMs = 0

\* C30: the delay slept after the k-th failed attempt on a reference, k from 1
\* to MAX_RETRIES, is k * RETRY_DELAY_MS (2000 ms, then 4000 ms), and the
\* failure of the last attempt is followed by no sleep.
C30_LinearRetryDelay == []C30_State /\ [][C30_Step]_vars

\* a reference sleeps 4000 ms after its second failed attempt
C30_Witness ==
  \E k \in DOMAIN proc :
    /\ proc[k].step = "sleep" /\ proc[k].sleepMs = 4000
    /\ AttemptsOf(proc[k]) = MAX_RETRIES

\* a reference fell back right after its third failed attempt
C30_WitnessFallback ==
  \E k \in DOMAIN proc :
    /\ proc[k].phase = "done" /\ proc[k].sleepMs = 0
    /\ <<proc[k].track.id, "artwork">> \in exhausted
    /\ proc[k].tries["artwork"] = MAX_RETRIES + 1

\* record out is record in, but for its two references
SameButRefs(out, in) ==
  [out EXCEPT !.audioUrl = in.audioUrl, !.artwork = in.artwork] = in

\* C31: the records pushed so far by uploadAllTrackAssets are, position by
\* position, the input records with at most audioUrl and artwork changed, and
\* the returned list has one such record for every input record, in input
\* order.
C31_ListPreserved ==
  /\ Len(results) <= Len(upTracks)
  /\ \A k \in 1..Len(results) : SameButRefs(results[k], upTracks[k])
  /\ upCall = "returned" =>
       /\ Len(upResult) = Len(upTracks)
       /\ \A k \in 1..Len(upTracks) : SameButRefs(upResult[k], upTracks[k])

\* a list of two windows was returned, with a relocated and a kept reference
C31_Witness ==
  /\ upCall = "returned"
  /\ Len(upTracks) > CONCURRENCY
  /\ \E k \in 1..Len(upResult) : upResult[k].audioUrl # upTracks[k].audioUrl
  /\ \E k \in 1..Len(upResult) : /\ IsHttp(upTracks[k].audioUrl)
                                 /\ upResult[k].audioUrl = upTracks[k].audioUrl

\* the ids of the records of a page, as the adapter builds them
PageIds(e) == {MkId(prov, n) : n \in Range(PageItems(e.part, e.offset))}

\* C32: the records an adapter call returns have pairwise distinct ids.
C32_DistinctIds ==
  apc = "return" =>
    Cardinality({MkId(prov, aTracks[k]) : k \in 1..Len(aTracks)}) = Len(aTracks)

\* the call received a page that lists a record twice and two pages, of
\* different partitions, that share a record
C32_Witness ==
  /\ apc = "return" /\ aTracks # <<>>
  /\ \E k \in 1..Len(reqLog) :
       /\ reqLog[k].outcome = "page"
       /\ Cardinality(PageIds(reqLog[k])) < Len(PageItems(reqLog[k].part, reqLog[k].offset))
  /\ \E j, k \in 1..Len(reqLog) :
       /\ reqLog[j].part # reqLog[k].part
       /\ reqLog[j].outcome = "page" /\ reqLog[k].outcome = "page"
       /\ PageIds(reqLog[j]) \cap PageIds(reqLog[k]) # {}

\* a record with a gs:// reference
Internal(doc) == doc.track.artwork.scheme = "gs" \/ doc.track.audioUrl.scheme = "gs"

C33_Step == dryRun => catalog' = catalog /\ fileTokens' = fileTokens

C33_State ==
  (dryRun /\ migPc \in {"summary", "done"}) =>
    LET order == OrderByName(DOMAIN catalog)
        scanned == {order[k] : k \in 1..stats.total}
    IN /\ stats.total <= Len(order)
       /\ limitCount = Infinity => stats.total = Len(order)
       /\ stats.migrated = Cardinality({id \in scanned : Internal(catalog[id])})
       /\ stats.skipped = stats.total - stats.migrated
       /\ stats.failed = 0 /\ stats.failedIds = <<>>

C34_Counts ==
  migPc = "done" =>
    /\ stats.total = stats.migrated + stats.skipped + stats.failed
    /\ Len(stats.failedIds) = stats.failed
    /\ Cardinality(Range(stats.failedIds)) = stats.failed

\* the download URLs held by the catalog and by the callbacks in flight
IssuedUrls ==
  {catalog[id].track[f] : id \in DOMAIN catalog, f \in {"artwork", "audioUrl"}}
    \cup UNION {{inflight[k].updates[f] : f \in DOMAIN inflight[k].updates} :
                k \in DOMAIN inflight}

C35_State ==
  \A url \in IssuedUrls :
    "token" \in DOMAIN url =>
      /\ PathOf(url) \in DOMAIN fileTokens
      /\ url.token = fileTokens[PathOf(url)]

\* a conversion has just returned a URL to callback k
ConvertedStep(k) ==
  /\ migPc = "chunk" /\ migPc' = "chunk"
  /\ inflight[k].stage \in {"getMetadata", "setMetadata"}
  /\ DOMAIN inflight'[k].updates # DOMAIN inflight[k].updates

C35_Step ==
  /\ \A path \in DOMAIN fileTokens :
       path \in DOMAIN fileTokens' /\ fileTokens'[path] = fileTokens[path]
  /\ \A k \in DOMAIN inflight :
       ConvertedStep(k) =>
         LET path == PathOf(CurRef(k))
         IN /\ inflight'[k].updates[inflight[k].field] = DownloadUrl(path, fileTokens'[path])
            /\ path \in DOMAIN fileTokens => fileTokens' = fileTokens

\* C35: a token once set on an object is never replaced; a conversion of a
\* reference whose object has a token returns the URL under that token and
\* writes no metadata, so every URL the utility has issued for an object keeps
\* naming the object's token, however often the reference is converted.
C35_TokenReuse == []C35_State /\ [][C35_Step]_vars

\* a later run converts once more a reference whose token an earlier
\* conversion of the utility has set
C35_Witness ==
  \E k \in DOMAIN inflight :
    /\ migPc = "chunk" /\ inflight[k].stage = "getMetadata"
    /\ PathOf(CurRef(k)) \in DOMAIN fileTokens
    /\ fileTokens[PathOf(CurRef(k))] # 900

C36_State ==
  (InRequests /\ ~TokenlessCall) =>
    \A k \in Failed(reqLog) :
      /\ SavedOffset(st, reqLog[k].part) = SavedOffset(LoadedDoc, reqLog[k].part)
      /\ prov \notin {"bandcamp", "discogs"} =>
           reqLog[k].offset = SavedOffset(LoadedDoc, reqLog[k].part)

\* the progress document has just been written
SavedStep == apc = "save" /\ saveStatus' = "ok"

C36_Step ==
  SavedStep =>
    \A k \in Failed(reqLog) :
      SavedOffset(stateDoc', reqLog[k].part) = SavedOffset(LoadedDoc, reqLog[k].part)

\* C36: a partition whose request returned a non-OK status or threw, also after
\* an item of the page was pushed, keeps in the call's progress, and in the
\* document the call writes, the offset the call loaded for it.
C36_CursorKept == []C36_State /\ [][C36_Step]_vars

\* a request at a stored offset above 0 threw after a record of its page was
\* pushed, and the progress was written
C36_Witness ==
  /\ apc = "return" /\ saveStatus = "ok" /\ loadStatus = "ok"
  /\ \E k \in 1..Len(reqLog) :
       /\ reqLog[k].outcome = "throw" /\ reqLog[k].got > 0 /\ reqLog[k].offset > 0
       /\ SavedOffset(stateDoc, reqLog[k].part) = reqLog[k].offset

\* every offset of a progress is a non-negative multiple of the page size
WholePages(offs) ==
  \A name \in DOMAIN offs : offs[name] >= 0 /\ offs[name] % PageSize(prov) = 0

\* C37: every offset of the stored progress document and of the progress a
\* call works on is a non-negative multiple of the provider's page size, and
\* a partition for which the call received a non-empty page at offset o has
\* offset o + PAGE_SIZE in the call's progress and, once the write succeeded,
\* in the stored document, whatever number of items of the page was kept.
C37_CursorAdvance ==
  /\ WholePages(stateDoc.offsets)
  /\ WholePages(st.offsets)
  /\ (prov # "bandcamp" /\ apc \in {"loop", "sleep", "save", "return"}) =>
       \A k \in 1..Len(reqLog) :
         reqLog[k].outcome = "page" =>
           /\ SavedOffset(st, reqLog[k].part) = reqLog[k].offset + PageSize(prov)
           /\ (apc = "return" /\ saveStatus = "ok") =>
                SavedOffset(stateDoc, reqLog[k].part) = reqLog[k].offset + PageSize(prov)

\* a page at an offset above 0 held one item, which was skipped, and the
\* progress was written
C37_Witness ==
  /\ apc = "return" /\ saveStatus = "ok" /\ prov # "bandcamp"
  /\ \E k \in 1..Len(reqLog) :
       /\ reqLog[k].outcome = "page" /\ reqLog[k].offset > 0
       /\ reqLog[k].got > 0
       /\ PageItems(reqLog[k].part, reqLog[k].offset) = <<>>

C38_State ==
  (db /\ pc \in {"MigrateAssets", "Write"}) =>
    /\ \A k \in 1..Len(newTracks) : newTracks[k].id \notin existingIds
    /\ \A k \in 1..Len(tracksToWrite) : tracksToWrite[k].id \notin existingIds
    /\ pc = "MigrateAssets" =>
         \A k \in 1..Len(newTracks) : newTracks[k].id \notin DOMAIN catalog

C38_Step ==
  \A id \in DOMAIN catalog : id \in DOMAIN catalog' /\ catalog'[id] = catalog[id]

\* C38: with one writer, the records a run hands to the batch writer have ids
\* that were absent from the catalog at the existence check, and no step
\* changes any field, the insertion time included, of a record the catalog
\* holds.
C38_ExistingUntouched == []C38_State /\ [][C38_Step]_vars

\* a second live run wrote new records next to a candidate it found in the
\* catalog, which still carries the insertion time of the first run
C38_Witness ==
  /\ pc = "Done" /\ run = 2 /\ ~dryRun /\ prevLive
  /\ newTracks # <<>>
  /\ \A k \in 1..Len(newTracks) : newTracks[k].id \in DOMAIN catalog
  /\ \E id \in existingIds : catalog[id].addedAt < clock

\* a reference the utility has converted: a download URL under a token
IsConverted(ref) == "token" \in DOMAIN ref
RefFields == {"artwork", "audioUrl"}

C39_State ==
  /\ \A id \in DOMAIN catalog :
       LET t == catalog[id].track
       IN (\E f \in RefFields : IsConverted(t[f])) => \A f \in RefFields : ~NeedsFix(t[f])
  /\ \A i \in 1..Len(stats.failedIds) :
       LET t == catalog[stats.failedIds[i]].track
       IN /\ \A f \in RefFields : ~IsConverted(t[f])
          /\ \E f \in RefFields : NeedsFix(t[f])
          /\ \A j \in 1..(i - 1) : stats.failedIds[j] # stats.failedIds[i]

C39_Step ==
  /\ \A id \in DOMAIN catalog :
       catalog'[id] # catalog[id] =>
         /\ \E k \in DOMAIN inflight :
              inflight[k].id = id /\ inflight[k].stage = "update"
         /\ \A f \in DOMAIN catalog[id].track \ RefFields :
              catalog'[id].track[f] = catalog[id].track[f]
         /\ \A f \in RefFields :
              LET ref == catalog[id].track[f]
              IN catalog'[id].track[f] =
                   IF NeedsFix(ref)
                   THEN DownloadUrl(PathOf(ref), fileTokens[PathOf(ref)])
                   ELSE ref
         /\ [catalog'[id] EXCEPT !.track = catalog[id].track] = catalog[id]
         /\ stats'.failed = stats.failed
  /\ (migPc = "chunk" /\ stats'.failed # stats.failed) =>
       /\ catalog' = catalog
       /\ stats'.failed = stats.failed + 1
       /\ \E k \in DOMAIN inflight :
            /\ inflight[k].stage \in {"exists", "getMetadata", "setMetadata"}
            /\ inflight'[k].stage = "done"
            /\ stats'.failedIds = Append(stats.failedIds, inflight[k].id)

\* C39: the utility changes a record only in the single update that follows
\* the conversion of every reference of it that needed one, and that update
\* replaces each such reference by its download URL and nothing else; a failed
\* conversion changes no record and counts the record as failed once, so no
\* record ever holds a converted reference next to an unconverted one.
C39_AllOrNothing == []C39_State /\ [][C39_Step]_vars

\* the artwork of a record was converted, its audio was not: the record is
\* counted as failed and keeps both references, while another record was
\* updated in both fields
C39_Witness ==
  /\ migPc = "done" /\ ~dryRun
  /\ \E id \in DOMAIN catalog :
       /\ \E i \in 1..Len(stats.failedIds) : stats.failedIds[i] = id
       /\ stats.failed = Len(stats.failedIds)
       /\ NeedsFix(catalog[id].track.artwork) /\ NeedsFix(catalog[id].track.audioUrl)
       /\ PathOf(catalog[id].track.artwork) \in DOMAIN fileTokens
  /\ \E id \in DOMAIN catalog :
       IsConverted(catalog[id].track.artwork) /\ IsConverted(catalog[id].track.audioUrl)

====
